---- MODULE Spec2Model ----
(***************************************************************************)
(* ORSAC website monitor: the per-site check pipeline (check_site) and the *)
(* round that drives it (run_checks_and_log) of monitor_backend.py.        *)
(*                                                                         *)
(* A record field of the program holds either a number or a sentinel       *)
(* string.  Both are modelled by one tagged value, Num(n) or Str(s), so    *)
(* that isinstance(x, (int, float)) is x.kind = "num".                     *)
(***************************************************************************)
EXTENDS Integers, Sequences, FiniteSets, TLC

VARIABLES
    sites,        \* config_data["sites"]: the list of site descriptors
    whois_lookup, \* the imported whois module, or "None" when the import failed
    pc,           \* position of the round: "loop", the probe about to run, "done";
                  \* "blocked" inside a call that does not return
    idx,          \* index of the site the for-loop of run_checks_and_log is at
    now,          \* logical clock behind datetime.now()
    results,      \* check_site: the record being filled in
    notes,        \* check_site: the notes accumulator (a string)
    answers,      \* check_site: the answer of the resolver, <<>> when there is none
    ip_addr,      \* check_site: the resolved address, "None" when there is none
    rows,         \* run_checks_and_log: the records of this round
    rowObs,       \* for each element of rows, the observations of its site
    logfile,      \* LOG_FILE: the lines of the CSV file, each a list of cells
    alerts,       \* the calls of send_email, in order
    errors,       \* the sites whose exception run_checks_and_log logged
    written,      \* how the round's attempt to write the log ended
    obs,          \* what the probes of the site being checked were seen to do
    lock,         \* LOCK_FILE: the process that holds the file lock, or "free"
    wpc,          \* for each process, where its round is in writing the log
    write_header, \* for each process, the local write_header of its round
    wrote,        \* for each process, how many of its rows it has written
    nrows,        \* for each process, len(rows) of its round
    remote,       \* what the network answers while it does not change, or "any"
    earlier,      \* the calls of run_checks_and_log that have returned (history)
    is_scheduled_run,     \* monitor_loop: SCHEDULED_TIMES was set and parsed
    scheduled_times,      \* monitor_loop: the times of day, in minutes after 00:00
    monitor_interval,     \* MONITOR_INTERVAL, in seconds
    clock,                \* the wall clock, in seconds after 00:00 of the first day
    loop_now,             \* monitor_loop: now, as the iteration of the loop read it
    last_run_date_times,  \* monitor_loop: for each time of day, now of its last round
    last_run_time,        \* monitor_loop: now of the last round, "None" before it
    lpc,                  \* monitor_loop: where the loop is
    pending,              \* monitor_loop: the times of day the for-loop has yet to visit
    started               \* the rounds the loop has begun (history)

\* the variables of the log as several processes see it
lockVars == <<lock, wpc, write_header, wrote, nrows>>

\* the variables of one round
roundVars == <<sites, whois_lookup, pc, idx, now, results, notes, answers, ip_addr,
               rows, rowObs, alerts, errors, written, obs>>

\* the variables of monitor_loop
loopVars == <<is_scheduled_run, scheduled_times, monitor_interval, clock, loop_now,
              last_run_date_times, last_run_time, lpc, pending, started>>

\* what a step of a round leaves alone: the network's state, the rounds before
\* it, and the loop that called it
outerVars == <<remote, earlier, loopVars>>

vars == <<sites, whois_lookup, pc, idx, now, results, notes, answers, ip_addr,
          rows, rowObs, logfile, alerts, errors, written, obs,
          lock, wpc, write_header, wrote, nrows, outerVars>>

----------------------------------------------------------------------------
(* Values *)

Num(n) == [kind |-> "num", num |-> n, str |-> ""]
Str(s) == [kind |-> "str", num |-> 0, str |-> s]
Bool(b) == [kind |-> "bool", num |-> IF b THEN 1 ELSE 0, str |-> ""]
IsNum(v) == v.kind = "num"

\* dict.get(key, default)
Get(d, key, default) == IF key \in DOMAIN d THEN d[key] ELSE default

\* bool(x) of a configuration value
Truthy(v) == IF v.kind = "str" THEN v.str # "" ELSE v.num # 0

\* int(x) of a configuration value raises ValueError on a non-numeric string
\* (the strings of the configurations below are not numerals)
IntRaises(v) == v.kind = "str"
IntOf(v) == v.num

----------------------------------------------------------------------------
(* Sequences and strings *)

Range(q) == {q[k] : k \in 1..Len(q)}

StartsWith(s, p) == Len(s) >= Len(p) /\ SubSeq(s, 1, Len(p)) = p

Contains(s, sub) ==
    \E k \in 1..(Len(s) - Len(sub) + 1) : SubSeq(s, k, k + Len(sub) - 1) = sub

Occurrences(s, sub) ==
    Cardinality({k \in 1..(Len(s) - Len(sub) + 1) : SubSeq(s, k, k + Len(sub) - 1) = sub})

IndexOf(s, sub) ==
    IF Contains(s, sub)
    THEN CHOOSE k \in 1..(Len(s) - Len(sub) + 1) :
            /\ SubSeq(s, k, k + Len(sub) - 1) = sub
            /\ \A j \in 1..(k - 1) : SubSeq(s, j, j + Len(sub) - 1) # sub
    ELSE 0

\* str.strip(): the notes hold no whitespace but the blank
RECURSIVE Strip(_)
Strip(s) ==
    IF Len(s) = 0 THEN s
    ELSE IF SubSeq(s, Len(s), Len(s)) = " " THEN Strip(SubSeq(s, 1, Len(s) - 1))
    ELSE IF SubSeq(s, 1, 1) = " " THEN Strip(SubSeq(s, 2, Len(s)))
    ELSE s

UpperChars == <<"A", "B", "C", "D", "E", "F", "G", "H", "I", "J", "K", "L", "M",
                "N", "O", "P", "Q", "R", "S", "T", "U", "V", "W", "X", "Y", "Z">>
LowerChars == <<"a", "b", "c", "d", "e", "f", "g", "h", "i", "j", "k", "l", "m",
                "n", "o", "p", "q", "r", "s", "t", "u", "v", "w", "x", "y", "z">>

LowerChar(c) ==
    IF \E k \in 1..Len(UpperChars) : UpperChars[k] = c
    THEN LowerChars[CHOOSE k \in 1..Len(UpperChars) : UpperChars[k] = c]
    ELSE c

\* str.lower()
RECURSIVE Lower(_)
Lower(s) == IF Len(s) = 0 THEN s ELSE LowerChar(SubSeq(s, 1, 1)) \o Lower(SubSeq(s, 2, Len(s)))

----------------------------------------------------------------------------
(* Configuration *)

RESPONSE_TIME_THRESHOLD == 3000
DEFAULT_TIMEOUT == 10
USE_ICMP_BY_DEFAULT == TRUE

\* Site descriptors of sites.yaml; a key that is absent takes its default.
SiteAlpha ==
    ("name" :> Str("alpha")) @@ ("url" :> Str("https://alpha.example/"))

SiteBeta ==
    ("name" :> Str("beta")) @@ ("url" :> Str("http://beta.example:8080/home"))
    @@ ("use_icmp" :> Bool(FALSE)) @@ ("expected_status" :> Num(503))
    @@ ("keyword" :> Str("Home"))

SiteOff ==
    ("name" :> Str("off")) @@ ("url" :> Str("https://off.example/"))
    @@ ("enabled" :> Bool(FALSE))

\* timeout: ten -- int() raises ValueError
SiteBadTimeout ==
    ("name" :> Str("bad")) @@ ("url" :> Str("https://bad.example/"))
    @@ ("timeout" :> Str("ten"))

\* timeout: 0 -- requests.get raises ValueError, which is no RequestException
SiteZeroTimeout ==
    ("name" :> Str("zero")) @@ ("url" :> Str("https://zero.example/"))
    @@ ("timeout" :> Num(0)) @@ ("use_icmp" :> Bool(FALSE))

\* keyword: 123 -- kw.lower() raises AttributeError
SiteNumKeyword ==
    ("name" :> Str("gamma")) @@ ("url" :> Str("https://gamma.example/"))
    @@ ("use_icmp" :> Bool(FALSE)) @@ ("keyword" :> Num(123))

\* a keyword with check_keyword: false
SiteKeywordOff ==
    ("name" :> Str("delta")) @@ ("url" :> Str("https://delta.example/"))
    @@ ("use_icmp" :> Bool(FALSE)) @@ ("keyword" :> Str("Home"))
    @@ ("check_keyword" :> Bool(FALSE))

\* check_keyword: true without a keyword
SiteFlagOnly ==
    ("name" :> Str("epsilon")) @@ ("url" :> Str("https://epsilon.example/"))
    @@ ("use_icmp" :> Bool(FALSE)) @@ ("check_keyword" :> Bool(TRUE))

\* ICMP by default and a keyword
SiteTwin ==
    ("name" :> Str("twin")) @@ ("url" :> Str("https://twin.example/"))
    @@ ("keyword" :> Str("Home"))

SiteLists ==
    { <<SiteAlpha, SiteOff, SiteBadTimeout, SiteZeroTimeout, SiteBeta>>,
      <<SiteOff>>,
      <<SiteNumKeyword>>,
      <<SiteKeywordOff>>,
      <<SiteFlagOnly>> }

\* the processes that run rounds: the continuous monitor and the instant
\* check the dashboard starts with --run-now
Procs == {"monitor", "run-now"}

\* no process is writing
NoWriters ==
    /\ lock = "free"
    /\ wpc = [p \in Procs |-> "idle"]
    /\ write_header = [p \in Procs |-> FALSE]
    /\ wrote = [p \in Procs |-> 0]
    /\ nrows = [p \in Procs |-> 0]

\* run_checks_and_log is called once, by no loop
NoLoop ==
    /\ is_scheduled_run = FALSE
    /\ scheduled_times = <<>>
    /\ monitor_interval = 1800
    /\ clock = 0
    /\ loop_now = 0
    /\ last_run_date_times = <<>>
    /\ last_run_time = [kind |-> "str", num |-> 0, str |-> "None"]
    /\ lpc = "idle"
    /\ pending = <<>>
    /\ started = <<>>

\* the fields of check_site that read the descriptor
enabled_Ignored(site) == TRUE
enabled(site) == Truthy(Get(site, "enabled", Bool(TRUE)))
use_icmp(site) == Truthy(Get(site, "use_icmp", Bool(USE_ICMP_BY_DEFAULT)))
timeout(site) == Get(site, "timeout", Num(DEFAULT_TIMEOUT))
expected_status(site) == Get(site, "expected_status", Num(200))
check_keyword_flag(site) ==
    Truthy(Get(site, "check_keyword", Bool(Truthy(Get(site, "keyword", Str(""))))))

\* urlparse(url).netloc.split(":")[0]
Netloc(url) ==
    IF ~Contains(url, "//") THEN ""
    ELSE LET from == IndexOf(url, "//") + 2
             rest == SubSeq(url, from, Len(url))
         IN  IF Contains(rest, "/") THEN SubSeq(rest, 1, IndexOf(rest, "/") - 1) ELSE rest

get_hostname(url) ==
    LET netloc == Netloc(url)
    IN  IF Contains(netloc, ":") THEN SubSeq(netloc, 1, IndexOf(netloc, ":") - 1) ELSE netloc

----------------------------------------------------------------------------
(* The record *)

fieldnames ==
    << "DateTime", "Website Name", "URL", "Status", "Ping (ms)",
       "HTTP Time (ms)", "DNS Time (ms)", "Content Size (KB)", "Redirects",
       "Keyword Check", "SSL Days Left", "SSL Expiry Date",
       "Domain Days Left", "Domain Expiry Date", "Notes" >>

FieldSet == {fieldnames[k] : k \in 1..Len(fieldnames)}

NoResults == [f \in FieldSet |-> Str("")]

\* datetime.now(timezone.utc).isoformat() at logical time t
IsoNow(t) == "T" \o ToString(t)

InitResults_Zero(site, t) ==
    [f \in FieldSet |->
        CASE f = "DateTime" -> Str(IsoNow(t))
          [] f = "Website Name" -> Get(site, "name", Str(""))
          [] f = "URL" -> Get(site, "url", Str(""))
          [] f = "Status" -> Str("Down")
          [] f \in {"Ping (ms)", "HTTP Time (ms)", "DNS Time (ms)", "Content Size (KB)",
                    "Redirects"} -> Num(0)
          [] f = "Keyword Check" -> Str("Skipped")
          [] f \in {"SSL Days Left", "SSL Expiry Date", "Domain Days Left",
                    "Domain Expiry Date"} -> Str("N/A")
          [] OTHER -> Str("")]

\* the dictionary check_site starts from
InitResults(site, t) ==
    [f \in FieldSet |->
        CASE f = "DateTime" -> Str(IsoNow(t))
          [] f = "Website Name" -> Get(site, "name", Str(""))
          [] f = "URL" -> Get(site, "url", Str(""))
          [] f = "Status" -> Str("Down")
          [] f \in {"Ping (ms)", "HTTP Time (ms)", "DNS Time (ms)", "Content Size (KB)"}
               -> Str("Failed")
          [] f = "Redirects" -> Num(0)
          [] f = "Keyword Check" -> Str("Skipped")
          [] f \in {"SSL Days Left", "SSL Expiry Date", "Domain Days Left",
                    "Domain Expiry Date"} -> Str("N/A")
          [] OTHER -> Str("")]

\* str(value) as csv.DictWriter writes a cell
Cell(v) == IF v.kind = "num" THEN ToString(v.num) ELSE v.str

RowOf(r) == [k \in 1..Len(fieldnames) |-> Cell(r[fieldnames[k]])]

----------------------------------------------------------------------------
(* What the network can answer *)

MaxAnswers == 2
MaxRedirects == 1

ADDRESSES == {"192.0.2.1", "192.0.2.2", "192.0.2.3"}
DNS_TIMES == {12}

\* the A records of a successful resolution: one to MaxAnswers distinct addresses
ANSWERS ==
    {a \in UNION {[1..n -> ADDRESSES] : n \in 1..MaxAnswers} :
        \A j, k \in 1..Len(a) : j # k => a[j] # a[k]}

\* icmplib.ping returns a host with is_alive and avg_rtt (Str("None") for None)
PING_RESULTS ==
    { [is_alive |-> TRUE, avg_rtt |-> Num(7)],
      [is_alive |-> FALSE, avg_rtt |-> Num(0)],
      [is_alive |-> TRUE, avg_rtt |-> Str("None")] }

STATUS_CODES == {200, 503}
HTTP_TIMES == {0, RESPONSE_TIME_THRESHOLD, RESPONSE_TIME_THRESHOLD + 1}
\* a page served directly, and a page reached at the end of a redirect chain
PAGES ==
    { [text |-> "Welcome HOME", history |-> 0],
      [text |-> "Service down", history |-> MaxRedirects] }

\* requests.Response: status_code, elapsed (ms), len(history), text
RESPONSES ==
    {[status_code |-> c, elapsed |-> t, history |-> p.history, text |-> p.text] :
        c \in STATUS_CODES, t \in HTTP_TIMES, p \in PAGES}

\* the peer certificate: notAfter in ISO form and the hours from now to it, which
\* are negative when notAfter passes between the handshake and the reading of the clock
CERTS ==
    { [remaining |-> 250, iso |-> "2026-11-15T12:00:00+00:00"],
      [remaining |-> -1, iso |-> "2026-11-05T11:00:00+00:00"] }

\* w.expiration_date: None, one datetime, or a list of candidates
NoDate == [isdate |-> FALSE, days |-> 0, iso |-> ""]
ADate == [isdate |-> TRUE, days |-> 40, iso |-> "2026-12-15T00:00:00+00:00"]
BDate == [isdate |-> TRUE, days |-> 400, iso |-> "2027-12-10T00:00:00+00:00"]
EXPIRATIONS ==
    { [islist |-> FALSE, items |-> <<NoDate>>],
      [islist |-> FALSE, items |-> <<ADate>>],
      [islist |-> TRUE, items |-> <<NoDate, ADate, BDate>>],
      [islist |-> TRUE, items |-> <<NoDate>>],
      [islist |-> TRUE, items |-> <<>>] }
NoExpiration == [islist |-> FALSE, items |-> <<>>]

----------------------------------------------------------------------------
(* The observations of a site check (history, not program state) *)

NoObs ==
    [site |-> 0, dns |-> "none", ping |-> "none", http |-> "none",
     code |-> 0, http_status |-> "", text |-> "", ssl |-> "none", remaining |-> 0,
     whois |-> "none", expiration_date |-> NoExpiration]

----------------------------------------------------------------------------
(* check_site, piece by piece *)

Site == sites[idx]

\* send_email(subject, body): the alert handed to the mail helper, which
\* catches every exception of the transport
send_email(sent, name) ==
    Append(sent, [site |-> idx, subject |-> "Alert: Website '" \o name \o "' is Down"])

\* int(site.get("timeout", ...)) or int(site.get("expected_status", 200)) raises
ConfigRaises(site) == IntRaises(timeout(site)) \/ IntRaises(expected_status(site))

\* answers[0].to_text()
FirstAddress_Last(a) == a[Len(a)]
FirstAddress(a) == a[1]

DnsOk(res, dns_time) == [res EXCEPT !["DNS Time (ms)"] = Num(dns_time)]
DnsFailed(res) == [res EXCEPT !["DNS Time (ms)"] = Str("Failed")]
DnsNote == "DNS lookup failed. "

PingAttempted_AnyTarget(site, ip) == use_icmp(site)

\* if use_icmp and ip_addr
PingAttempted(site, ip) == use_icmp(site) /\ ip \notin {"None", ""}

PingValue_AliveOnly(ping_res) ==
    IF ping_res.is_alive
    THEN Num(IF ping_res.avg_rtt.kind = "num" THEN ping_res.avg_rtt.num ELSE 0)
    ELSE Str("Failed")

\* the value of a ping that returned
PingValue(ping_res) ==
    IF ping_res.is_alive /\ ping_res.avg_rtt.kind = "num"
    THEN Num(ping_res.avg_rtt.num)
    ELSE Str("Failed")

PingError == Str("Error")
PingSkipped_Default == Str("Failed")
PingSkipped == Str("N/A")
PingNote == "ICMP ping failed. "

\* round(len(r.content) / 1024, 2), in hundredths of a KB
ContentSize(text) == (Len(text) * 100 + 512) \div 1024

HttpMeasured(res, r) ==
    [res EXCEPT !["HTTP Time (ms)"] = Num(r.elapsed),
                !["Redirects"] = Num(r.history),
                !["Content Size (KB)"] = Num(ContentSize(r.text))]

StatusOf_BareDown(expected, code) == IF code = expected THEN "Up" ELSE "Down"

StatusOf_Fixed200(expected, code) ==
    IF code = 200 THEN "Up" ELSE "Down (" \o ToString(code) \o ")"

StatusOf(expected, code) ==
    IF code = expected THEN "Up" ELSE "Down (" \o ToString(code) \o ")"

\* if r.status_code != expected_status: ... send_email(subject, body)
AlertOnResponse_Non200(expected, code) == code # 200
AlertOnResponse(expected, code) == code # expected

StatusNote(expected, code) ==
    IF code = expected THEN ""
    ELSE "Expected status " \o ToString(expected) \o ", but got " \o ToString(code) \o ". "

\* if check_keyword_flag and site.get("keyword")
KeywordRuns(site) == check_keyword_flag(site) /\ Truthy(Get(site, "keyword", Str("")))

KeywordCheck_CaseSensitive(site, text) ==
    LET kw == Get(site, "keyword", Str(""))
    IN  IF ~KeywordRuns(site) THEN "Skipped"
        ELSE IF kw.kind # "str" THEN "Error"
        ELSE IF Contains(text, kw.str) THEN "Pass"
        ELSE "Fail"

\* kw.lower() in r.text.lower(); kw.lower() raises when kw is no string
KeywordCheck(site, text) ==
    LET kw == Get(site, "keyword", Str(""))
    IN  IF ~KeywordRuns(site) THEN "Skipped"
        ELSE IF kw.kind # "str" THEN "Error"
        ELSE IF Contains(Lower(text), Lower(kw.str)) THEN "Pass"
        ELSE "Fail"

KeywordNote(site, text) ==
    IF KeywordCheck(site, text) = "Fail"
    THEN "Keyword '" \o Get(site, "keyword", Str("")).str \o "' not found in content. "
    ELSE ""

\* resolver.resolve(..., lifetime=5), icmplib.ping(..., timeout=2),
\* socket.create_connection(..., timeout=10), in seconds
DNS_LIFETIME == 5
PING_TIMEOUT == 2
SSL_TIMEOUT == 10

HttpFailedStatus_Default == "Down"
HttpFailedStatus == "Down (HTTP Error)"
HttpFailedNote == "HTTP request failed. "

\* requests.get raises ValueError for a timeout that is not positive
HttpRaisesOther(site) == IntOf(timeout(site)) <= 0

\* timedelta.days: the whole days of a duration, rounded down
DaysOf_Truncated(hours) == IF hours >= 0 THEN hours \div 24 ELSE -((-hours) \div 24)
DaysOf(hours) == hours \div 24

SslOk(res, cert) ==
    [res EXCEPT !["SSL Expiry Date"] = Str(cert.iso),
                !["SSL Days Left"] = Num(DaysOf(cert.remaining))]
SslFailed_MarksDown(res) ==
    [res EXCEPT !["SSL Days Left"] = Str("Failed"), !["Status"] = Str("Down (SSL)")]
SslFailed(res) == [res EXCEPT !["SSL Days Left"] = Str("Failed")]
SslNote == "SSL check failed. "

\* what whois_lookup.whois(hostname) does: raise, or give an expiration_date
WHOIS_ANSWERS ==
    {[raises |-> TRUE, expiration_date |-> [islist |-> FALSE, items |-> <<NoDate>>]]}
    \cup {[raises |-> FALSE, expiration_date |-> e] : e \in EXPIRATIONS}

IsDate(e) == e.isdate

get_domain_expiry_FirstEntry(lookup, w) ==
    IF lookup = "None" THEN [exp_dt |-> NoDate, days_left |-> Str("N/A")]
    ELSE IF w.raises THEN [exp_dt |-> NoDate, days_left |-> Str("WHOIS Failed")]
    ELSE LET exp == IF w.expiration_date.items # <<>>
                    THEN w.expiration_date.items[1] ELSE NoDate
         IN  IF exp.isdate
             THEN [exp_dt |-> exp, days_left |-> Num(exp.days)]
             ELSE [exp_dt |-> NoDate, days_left |-> Str("N/A")]

get_domain_expiry_Unguarded(lookup, w) ==
    IF w.raises THEN [exp_dt |-> NoDate, days_left |-> Str("WHOIS Failed")]
    ELSE LET exp_dates == SelectSeq(w.expiration_date.items, IsDate)
             exp == IF exp_dates # <<>> THEN exp_dates[1] ELSE NoDate
         IN  IF exp.isdate
             THEN [exp_dt |-> exp, days_left |-> Num(exp.days)]
             ELSE [exp_dt |-> NoDate, days_left |-> Str("N/A")]

\* get_domain_expiry: (exp_dt, days_left); w is read only when the module is there
get_domain_expiry(lookup, w) ==
    IF lookup = "None" THEN [exp_dt |-> NoDate, days_left |-> Str("N/A")]
    ELSE IF w.raises THEN [exp_dt |-> NoDate, days_left |-> Str("WHOIS Failed")]
    ELSE LET exp_dates == SelectSeq(w.expiration_date.items, IsDate)
             exp == IF exp_dates # <<>> THEN exp_dates[1] ELSE NoDate
         IN  IF exp.isdate
             THEN [exp_dt |-> exp, days_left |-> Num(exp.days)]
             ELSE [exp_dt |-> NoDate, days_left |-> Str("N/A")]

DomainResult(res, d) ==
    [res EXCEPT !["Domain Expiry Date"] = IF d.exp_dt.isdate THEN Str(d.exp_dt.iso) ELSE @,
                !["Domain Days Left"] = d.days_left]

DomainNote(d) ==
    IF d.days_left.kind = "str" /\ d.days_left.str \in {"N/A", "WHOIS Failed"}
    THEN "Domain check failed: " \o d.days_left.str \o ". "
    ELSE ""

MarkSlow_AtThreshold(res) ==
    IF /\ IsNum(res["HTTP Time (ms)"])
       /\ res["HTTP Time (ms)"].num >= RESPONSE_TIME_THRESHOLD
       /\ StartsWith(res["Status"].str, "Up")
    THEN [res EXCEPT !["Status"] = Str("Up (Slow)")]
    ELSE res

\* Mark slow if HTTP time exceeds threshold
MarkSlow(res) ==
    IF /\ IsNum(res["HTTP Time (ms)"])
       /\ res["HTTP Time (ms)"].num > RESPONSE_TIME_THRESHOLD
       /\ StartsWith(res["Status"].str, "Up")
    THEN [res EXCEPT !["Status"] = Str("Up (Slow)")]
    ELSE res

Compose_NoStrip(res, n) == [MarkSlow(res) EXCEPT !["Notes"] = Str(n)]

\* results["Notes"] = notes.strip(), after the slow mark
Compose(res, n) == [MarkSlow(res) EXCEPT !["Notes"] = Str(Strip(n))]

----------------------------------------------------------------------------
(* A network whose state does not change from one round to the next.  Each   *)
(* probe either raises or gives its answer; a certificate and a registration *)
(* hold the hour they expire at, counted on the clock behind now.            *)

\* the hours between two starts of a round
GAPS == {0, 24}

NoAnswer == [answer |-> <<>>, time |-> 0]
NoHost == [is_alive |-> FALSE, avg_rtt |-> Str("None")]
NoResponse == [status_code |-> 0, elapsed |-> 0, history |-> 0, text |-> ""]
NoCert == [notAfter |-> 0, iso |-> ""]

DNS_OUTCOMES ==
    {[raises |-> TRUE, gives |-> NoAnswer]}
    \cup {[raises |-> FALSE, gives |-> [answer |-> a, time |-> t]] :
              a \in ANSWERS, t \in DNS_TIMES}
PING_OUTCOMES ==
    {[raises |-> TRUE, gives |-> NoHost]}
    \cup {[raises |-> FALSE, gives |-> h] : h \in PING_RESULTS}
HTTP_OUTCOMES ==
    {[raises |-> TRUE, gives |-> NoResponse]}
    \cup {[raises |-> FALSE, gives |-> r] : r \in RESPONSES}
SSL_OUTCOMES ==
    {[raises |-> TRUE, gives |-> NoCert]}
    \cup {[raises |-> FALSE, gives |-> [notAfter |-> c.remaining, iso |-> c.iso]] :
              c \in {x \in CERTS : x.remaining > 0}}

\* the states of the network: the name does not resolve or has one A record
REMOTES ==
    [fixed : {TRUE},
     dns : {o \in DNS_OUTCOMES : Len(o.gives.answer) <= 1},
     ping : PING_OUTCOMES, http : HTTP_OUTCOMES, ssl : SSL_OUTCOMES,
     whois : WHOIS_ANSWERS]

\* the network of a single round: every probe may get any answer
AnyRemote ==
    [fixed |-> FALSE,
     dns |-> [raises |-> TRUE, gives |-> NoAnswer],
     ping |-> [raises |-> TRUE, gives |-> NoHost],
     http |-> [raises |-> TRUE, gives |-> NoResponse],
     ssl |-> [raises |-> TRUE, gives |-> NoCert],
     whois |-> CHOOSE x \in WHOIS_ANSWERS : x.raises]

\* the probe may raise / may get the answer x
Raises(probe) == remote.fixed => remote[probe].raises
Gives(probe, x) == remote.fixed => (~remote[probe].raises /\ remote[probe].gives = x)

\* expiry - datetime.now(timezone.utc), in hours, at hour t
CertAt(c, t) == [remaining |-> c.notAfter - t, iso |-> c.iso]
\* a date that lies e.days days and 23 hours after hour 0, as seen at hour t
DateAt(e, t) == IF e.isdate THEN [e EXCEPT !.days = DaysOf(24 * e.days + 23 - t)] ELSE e
WhoisAt(w, t) ==
    [w EXCEPT !.expiration_date.items =
                  [k \in 1..Len(w.expiration_date.items) |->
                      DateAt(w.expiration_date.items[k], t)]]

\* the certificates and the registrations a probe may be given now
Certs ==
    IF ~remote.fixed THEN CERTS
    ELSE IF remote.ssl.raises THEN {}
    ELSE {CertAt(remote.ssl.gives, now)}
WhoisAnswers == IF remote.fixed THEN {WhoisAt(remote.whois, now)} ELSE WHOIS_ANSWERS

----------------------------------------------------------------------------
(* The round *)

Init ==
    /\ sites \in SiteLists
    /\ whois_lookup \in {"module", "None"}
    /\ logfile = <<>>
    /\ pc = "loop"
    /\ idx = 1
    /\ now = 0
    /\ results = NoResults
    /\ notes = ""
    /\ answers = <<>>
    /\ ip_addr = "None"
    /\ rows = <<>>
    /\ rowObs = <<>>
    /\ alerts = <<>>
    /\ errors = <<>>
    /\ written = "no"
    /\ obs = NoObs
    /\ NoWriters
    /\ NoLoop
    /\ remote = AnyRemote
    /\ earlier = <<>>

InSite == pc \in {"dns", "icmp", "http", "ssl", "whois", "compose"}

\* check_site returns or raises: its locals are gone, the loop goes on
LeaveSite ==
    /\ results' = NoResults
    /\ notes' = ""
    /\ answers' = <<>>
    /\ ip_addr' = "None"
    /\ obs' = NoObs
    /\ idx' = idx + 1
    /\ pc' = "loop"

\* if not enabled: return None; the loop continues
CheckSiteDisabled ==
    /\ pc = "loop" /\ idx <= Len(sites)
    /\ ~enabled(Site)
    /\ idx' = idx + 1
    /\ UNCHANGED <<sites, whois_lookup, pc, now, results, notes, answers, ip_addr,
                   rows, rowObs, logfile, alerts, errors, written, obs>>
    /\ UNCHANGED <<lockVars, outerVars>>

CheckSiteConfigError_Abort ==
    /\ pc = "loop" /\ idx <= Len(sites)
    /\ enabled(Site)
    /\ ConfigRaises(Site)
    /\ pc' = "done"
    /\ UNCHANGED <<sites, whois_lookup, idx, now, results, notes, answers, ip_addr,
                   rows, rowObs, logfile, alerts, errors, written, obs>>
    /\ UNCHANGED <<lockVars, outerVars>>

\* int() of a malformed setting raises; run_checks_and_log logs it and goes on
CheckSiteConfigError ==
    /\ pc = "loop" /\ idx <= Len(sites)
    /\ enabled(Site)
    /\ ConfigRaises(Site)
    /\ errors' = Append(errors, idx)
    /\ idx' = idx + 1
    /\ UNCHANGED <<sites, whois_lookup, pc, now, results, notes, answers, ip_addr,
                   rows, rowObs, logfile, alerts, written, obs>>
    /\ UNCHANGED <<lockVars, outerVars>>

\* the settings are read and the record is initialized
CheckSiteBegin ==
    /\ pc = "loop" /\ idx <= Len(sites)
    /\ enabled(Site)
    /\ ~ConfigRaises(Site)
    /\ results' = InitResults(Site, now)
    /\ now' = now + 1
    /\ notes' = ""
    /\ answers' = <<>>
    /\ ip_addr' = "None"
    /\ obs' = [NoObs EXCEPT !.site = idx]
    /\ pc' = "dns"
    /\ UNCHANGED <<sites, whois_lookup, idx, rows, rowObs, logfile, alerts, errors,
                   written>>
    /\ UNCHANGED <<lockVars, outerVars>>

\* DNS timing
DnsProbe ==
    /\ pc = "dns"
    /\ \/ \E a \in ANSWERS, t \in DNS_TIMES :
            /\ Gives("dns", [answer |-> a, time |-> t])
            /\ results' = DnsOk(results, t)
            /\ answers' = a
            /\ ip_addr' = FirstAddress(a)
            /\ notes' = notes
            /\ obs' = [obs EXCEPT !.dns = "ok"]
       \/ /\ Raises("dns")
          /\ results' = DnsFailed(results)
          /\ notes' = notes \o DnsNote
          /\ obs' = [obs EXCEPT !.dns = "failed"]
          /\ UNCHANGED <<answers, ip_addr>>
    /\ pc' = "icmp"
    /\ UNCHANGED <<sites, whois_lookup, idx, now, rows, rowObs, logfile, alerts,
                   errors, written>>
    /\ UNCHANGED <<lockVars, outerVars>>

\* ICMP ping (optional)
IcmpProbe ==
    /\ pc = "icmp"
    /\ IF PingAttempted(Site, ip_addr)
       THEN \/ \E ping_res \in PING_RESULTS :
                 /\ Gives("ping", ping_res)
                 /\ results' = [results EXCEPT !["Ping (ms)"] = PingValue(ping_res)]
                 /\ notes' = notes
                 /\ obs' = [obs EXCEPT !.ping =
                               IF ping_res.is_alive /\ ping_res.avg_rtt # Str("None")
                               THEN "alive" ELSE "noreply"]
            \/ /\ Raises("ping")
               /\ results' = [results EXCEPT !["Ping (ms)"] = PingError]
               /\ notes' = notes \o PingNote
               /\ obs' = [obs EXCEPT !.ping = "raised"]
       ELSE /\ results' = [results EXCEPT !["Ping (ms)"] = PingSkipped]
            /\ UNCHANGED <<notes, obs>>
    /\ answers' = <<>>      \* neither is read after the ping
    /\ ip_addr' = "None"
    /\ pc' = "http"
    /\ UNCHANGED <<sites, whois_lookup, idx, now, rows, rowObs, logfile, alerts,
                   errors, written>>
    /\ UNCHANGED <<lockVars, outerVars>>

\* HTTP request + keyword + redirects + content size: the request returns
HttpResponse ==
    /\ pc = "http"
    /\ ~HttpRaisesOther(Site)
    /\ \E r \in RESPONSES :
        LET expected == IntOf(expected_status(Site))
            status == StatusOf(expected, r.status_code)
            kc == KeywordCheck(Site, r.text)
        IN  /\ Gives("http", r)
            /\ results' = [HttpMeasured(results, r) EXCEPT
                              !["Status"] = Str(status),
                              !["Keyword Check"] = Str(kc)]
            /\ notes' = notes \o StatusNote(expected, r.status_code)
                              \o KeywordNote(Site, r.text)
            /\ alerts' = IF AlertOnResponse(expected, r.status_code)
                         THEN send_email(alerts, Cell(Get(Site, "name", Str(""))))
                         ELSE alerts
            /\ obs' = [obs EXCEPT !.http = "response",
                                  !.code = r.status_code,
                                  !.http_status = status,
                                  !.text = r.text]
    /\ pc' = "ssl"
    /\ UNCHANGED <<sites, whois_lookup, idx, now, answers, ip_addr, rows, rowObs,
                   logfile, errors, written>>
    /\ UNCHANGED <<lockVars, outerVars>>

\* except requests.exceptions.RequestException
HttpRequestException ==
    /\ pc = "http"
    /\ ~HttpRaisesOther(Site)
    /\ Raises("http")
    /\ results' = [results EXCEPT !["Status"] = Str(HttpFailedStatus)]
    /\ notes' = notes \o HttpFailedNote
    /\ alerts' = send_email(alerts, Cell(Get(Site, "name", Str(""))))
    /\ obs' = [obs EXCEPT !.http = "request_exception",
                          !.http_status = HttpFailedStatus]
    /\ pc' = "ssl"
    /\ UNCHANGED <<sites, whois_lookup, idx, now, answers, ip_addr, rows, rowObs,
                   logfile, errors, written>>
    /\ UNCHANGED <<lockVars, outerVars>>

\* requests.get raises an exception that is no RequestException: it leaves
\* check_site, and run_checks_and_log logs it and goes on with the next site
HttpOtherException ==
    /\ pc = "http"
    /\ HttpRaisesOther(Site)
    /\ errors' = Append(errors, idx)
    /\ LeaveSite
    /\ UNCHANGED <<sites, whois_lookup, now, rows, rowObs, logfile, alerts, written>>
    /\ UNCHANGED <<lockVars, outerVars>>

\* SSL check (attempt)
SslProbe ==
    /\ pc = "ssl"
    /\ \/ \E cert \in Certs :
            /\ results' = SslOk(results, cert)
            /\ notes' = notes
            /\ obs' = [obs EXCEPT !.ssl = "ok", !.remaining = cert.remaining]
       \/ /\ Raises("ssl")
          /\ results' = SslFailed(results)
          /\ notes' = notes \o SslNote
          /\ obs' = [obs EXCEPT !.ssl = "failed"]
    /\ pc' = "whois"
    /\ UNCHANGED <<sites, whois_lookup, idx, now, answers, ip_addr, rows, rowObs,
                   logfile, alerts, errors, written>>
    /\ UNCHANGED <<lockVars, outerVars>>

\* Domain (WHOIS) expiry
WhoisProbe ==
    /\ pc = "whois"
    /\ \E w \in IF whois_lookup = "None" THEN {CHOOSE x \in WHOIS_ANSWERS : x.raises}
                ELSE WhoisAnswers :
        LET d == get_domain_expiry(whois_lookup, w)
        IN  /\ results' = DomainResult(results, d)
            /\ notes' = notes \o DomainNote(d)
            /\ obs' = [obs EXCEPT
                          !.whois =
                              IF whois_lookup = "None" THEN "unavailable"
                              ELSE IF w.raises THEN "raised"
                              ELSE IF \E e \in Range(w.expiration_date.items) : e.isdate
                                   THEN "date" ELSE "nodate",
                          !.expiration_date =
                              IF whois_lookup = "None" \/ w.raises THEN NoExpiration
                              ELSE w.expiration_date]
    /\ pc' = "compose"
    /\ UNCHANGED <<sites, whois_lookup, idx, now, answers, ip_addr, rows, rowObs,
                   logfile, alerts, errors, written>>
    /\ UNCHANGED <<lockVars, outerVars>>

\* the timeout each probe hands to its network call; "None" when it hands none
ProbeTimeout(site, probe) ==
    CASE probe = "dns" -> Num(DNS_LIFETIME)
      [] probe = "icmp" -> Num(PING_TIMEOUT)
      [] probe = "http" -> Num(IntOf(timeout(site)))
      [] probe = "ssl" -> Num(SSL_TIMEOUT)
      [] probe = "whois" -> Str("None")

\* the remote end never answers.  A call with a timeout fails within it, which
\* is the failure outcome of its probe; a call without one does not return.
ProbeBlocks ==
    /\ pc \in {"dns", "icmp", "http", "ssl", "whois"}
    /\ pc = "icmp" => PingAttempted(Site, ip_addr)
    /\ pc = "whois" => whois_lookup # "None"
    /\ ProbeTimeout(Site, pc) = Str("None")
    /\ pc' = "blocked"
    /\ UNCHANGED <<sites, whois_lookup, idx, now, results, notes, answers, ip_addr,
                   rows, rowObs, logfile, alerts, errors, written, obs>>
    /\ UNCHANGED <<lockVars, outerVars>>

\* the slow mark and the notes; check_site returns and the record joins rows
CheckSiteReturn ==
    /\ pc = "compose"
    /\ rows' = Append(rows, Compose(results, notes))
    /\ rowObs' = Append(rowObs, [obs EXCEPT !.expiration_date = NoExpiration])
    /\ LeaveSite
    /\ UNCHANGED <<sites, whois_lookup, now, logfile, alerts, errors, written>>
    /\ UNCHANGED <<lockVars, outerVars>>

\* if not rows: return
NoSites ==
    /\ pc = "loop" /\ idx > Len(sites)
    /\ rows = <<>>
    /\ written' = "norows"
    /\ pc' = "done"
    /\ UNCHANGED <<sites, whois_lookup, idx, now, results, notes, answers, ip_addr,
                   rows, rowObs, logfile, alerts, errors, obs>>
    /\ UNCHANGED <<lockVars, outerVars>>

\* with FileLock(...): the header when the file is missing or empty, then the rows
WriteRows_AlwaysHeader(file, rs) ==
    file \o <<fieldnames>> \o [k \in 1..Len(rs) |-> RowOf(rs[k])]

WriteRows(file, rs) ==
    file \o (IF file = <<>> THEN <<fieldnames>> ELSE <<>>)
         \o [k \in 1..Len(rs) |-> RowOf(rs[k])]

WriteLog ==
    /\ pc = "loop" /\ idx > Len(sites)
    /\ rows # <<>>
    /\ logfile' = WriteRows(logfile, rows)
    /\ written' = "ok"
    /\ pc' = "done"
    /\ UNCHANGED <<sites, whois_lookup, idx, now, results, notes, answers, ip_addr,
                   rows, rowObs, alerts, errors, obs>>
    /\ UNCHANGED <<lockVars, outerVars>>

\* the lock is not acquired in 15 s, or the file cannot be opened: logged
WriteLogFailed ==
    /\ pc = "loop" /\ idx > Len(sites)
    /\ rows # <<>>
    /\ written' = "failed"
    /\ pc' = "done"
    /\ UNCHANGED <<sites, whois_lookup, idx, now, results, notes, answers, ip_addr,
                   rows, rowObs, logfile, alerts, errors, obs>>
    /\ UNCHANGED <<lockVars, outerVars>>

Next ==
    \/ CheckSiteDisabled
    \/ CheckSiteConfigError
    \/ CheckSiteBegin
    \/ DnsProbe
    \/ IcmpProbe
    \/ HttpResponse
    \/ HttpRequestException
    \/ HttpOtherException
    \/ SslProbe
    \/ WhoisProbe
    \/ ProbeBlocks
    \/ CheckSiteReturn
    \/ NoSites
    \/ WriteLog
    \/ WriteLogFailed

Spec == Init /\ [][Next]_vars

----------------------------------------------------------------------------
(* A round over a configuration that lists the same descriptor twice *)

InitTwin ==
    /\ sites = <<SiteTwin, SiteTwin>>
    /\ whois_lookup = "module"
    /\ logfile = <<>>
    /\ pc = "loop"
    /\ idx = 1
    /\ now = 0
    /\ results = NoResults
    /\ notes = ""
    /\ answers = <<>>
    /\ ip_addr = "None"
    /\ rows = <<>>
    /\ rowObs = <<>>
    /\ alerts = <<>>
    /\ errors = <<>>
    /\ written = "no"
    /\ obs = NoObs
    /\ NoWriters
    /\ NoLoop
    /\ remote = AnyRemote
    /\ earlier = <<>>

NextTwin ==
    \/ CheckSiteBegin
    \/ DnsProbe
    \/ IcmpProbe
    \/ HttpResponse
    \/ HttpRequestException
    \/ SslProbe
    \/ WhoisProbe
    \/ ProbeBlocks
    \/ CheckSiteReturn
    \/ WriteLog
    \/ WriteLogFailed

SpecTwin == InitTwin /\ [][NextTwin]_vars

----------------------------------------------------------------------------
(* run_checks_and_log called a second time by the same process, over a      *)
(* configuration and a network that do not change                           *)

InitAgain ==
    /\ sites = <<SiteAlpha, SiteOff, SiteBadTimeout, SiteZeroTimeout, SiteBeta>>
    /\ whois_lookup = "module"
    /\ remote \in REMOTES
    /\ logfile = <<>>
    /\ pc = "loop"
    /\ idx = 1
    /\ now = 0
    /\ results = NoResults
    /\ notes = ""
    /\ answers = <<>>
    /\ ip_addr = "None"
    /\ rows = <<>>
    /\ rowObs = <<>>
    /\ alerts = <<>>
    /\ errors = <<>>
    /\ written = "no"
    /\ obs = NoObs
    /\ earlier = <<>>
    /\ NoWriters
    /\ NoLoop

\* run_checks_and_log has returned; some hours later it is called again, and
\* starts from rows = []
RunAgain ==
    /\ pc = "done"
    /\ earlier = <<>>
    /\ earlier' = Append(earlier, [rows |-> rows, written |-> written,
                                   logfile |-> logfile])
    /\ \E gap \in GAPS : now' = now + gap
    /\ rows' = <<>>
    /\ rowObs' = <<>>
    /\ idx' = 1
    /\ written' = "no"
    /\ pc' = "loop"
    /\ UNCHANGED <<sites, whois_lookup, results, notes, answers, ip_addr, logfile,
                   alerts, errors, obs, remote, loopVars>>
    /\ UNCHANGED lockVars

NextAgain ==
    \/ CheckSiteDisabled
    \/ CheckSiteConfigError
    \/ CheckSiteBegin
    \/ DnsProbe
    \/ IcmpProbe
    \/ HttpResponse
    \/ HttpRequestException
    \/ HttpOtherException
    \/ SslProbe
    \/ WhoisProbe
    \/ CheckSiteReturn
    \/ WriteLog
    \/ WriteLogFailed
    \/ RunAgain

SpecAgain == InitAgain /\ [][NextAgain]_vars

----------------------------------------------------------------------------
(* Rounds of several processes appending to the one log.  Each process has  *)
(* its rows and is at "with FileLock(LOCK_FILE, timeout=15)".               *)

MaxRows == 2

\* the line of row k of the round of process p: the round in the DateTime
\* cell, the site in the Website Name cell
RoundRow(p, k) ==
    [j \in 1..Len(fieldnames) |->
        IF j = 1 THEN p ELSE IF j = 2 THEN "site" \o ToString(k) ELSE ""]

\* a line left by an earlier round
OldRow == RoundRow("earlier", 1)

InitLog ==
    /\ sites = <<SiteAlpha>>
    /\ whois_lookup = "module"
    /\ logfile \in {<<>>, <<fieldnames, OldRow>>}
    /\ pc = "loop"
    /\ idx = 2
    /\ now = 0
    /\ results = NoResults
    /\ notes = ""
    /\ answers = <<>>
    /\ ip_addr = "None"
    /\ rows = <<>>
    /\ rowObs = <<>>
    /\ alerts = <<>>
    /\ errors = <<>>
    /\ written = "no"
    /\ obs = NoObs
    /\ lock = "free"
    /\ wpc = [p \in Procs |-> "start"]
    /\ write_header = [p \in Procs |-> FALSE]
    /\ wrote = [p \in Procs |-> 0]
    /\ nrows \in [Procs -> 1..MaxRows]
    /\ NoLoop
    /\ remote = AnyRemote
    /\ earlier = <<>>

LockAcquire_NoWait(p) ==
    /\ wpc[p] = "start"
    /\ lock' = p
    /\ wpc' = [wpc EXCEPT ![p] = "stat"]
    /\ UNCHANGED <<logfile, write_header, wrote, nrows, roundVars, outerVars>>

\* FileLock.__enter__: the lock is taken when no other process holds it
LockAcquire(p) ==
    /\ wpc[p] = "start"
    /\ lock = "free"
    /\ lock' = p
    /\ wpc' = [wpc EXCEPT ![p] = "stat"]
    /\ UNCHANGED <<logfile, write_header, wrote, nrows, roundVars, outerVars>>

\* another process held the lock for 15 s: Timeout is raised, caught and logged
LockTimeout(p) ==
    /\ wpc[p] = "start"
    /\ lock \notin {"free", p}
    /\ wpc' = [wpc EXCEPT ![p] = "failed"]
    /\ UNCHANGED <<lock, logfile, write_header, wrote, nrows, roundVars, outerVars>>

\* write_header = not os.path.exists(LOG_FILE) or os.stat(LOG_FILE).st_size == 0
StatLog(p) ==
    /\ wpc[p] = "stat"
    /\ write_header' = [write_header EXCEPT ![p] = (logfile = <<>>)]
    /\ wpc' = [wpc EXCEPT ![p] = "open"]
    /\ UNCHANGED <<lock, logfile, wrote, nrows, roundVars, outerVars>>

\* open(LOG_FILE, "a"); if write_header: writer.writeheader()
WriteHeader(p) ==
    /\ wpc[p] = "open"
    /\ logfile' = IF write_header[p] THEN Append(logfile, fieldnames) ELSE logfile
    /\ wpc' = [wpc EXCEPT ![p] = "rows"]
    /\ UNCHANGED <<lock, write_header, wrote, nrows, roundVars, outerVars>>

\* for r in rows: writer.writerow(r) -- one row reaches the file
WriteRow(p) ==
    /\ wpc[p] = "rows"
    /\ wrote[p] < nrows[p]
    /\ logfile' = Append(logfile, RoundRow(p, wrote[p] + 1))
    /\ wrote' = [wrote EXCEPT ![p] = @ + 1]
    /\ UNCHANGED <<lock, wpc, write_header, nrows, roundVars, outerVars>>

\* the file is closed and FileLock.__exit__ releases the lock
CloseAndRelease(p) ==
    /\ wpc[p] = "rows"
    /\ wrote[p] = nrows[p]
    /\ lock' = "free"
    /\ wpc' = [wpc EXCEPT ![p] = "done"]
    /\ UNCHANGED <<logfile, write_header, wrote, nrows, roundVars, outerVars>>

WriteRaises_Truncates(p) ==
    /\ wpc[p] \in {"stat", "open", "rows"}
    /\ lock' = "free"
    /\ wpc' = [wpc EXCEPT ![p] = "failed"]
    /\ logfile' = <<>>
    /\ UNCHANGED <<write_header, wrote, nrows, roundVars, outerVars>>

\* stat, open or a write raises: both with-blocks are left, the lock is
\* released, the exception is caught and logged
WriteRaises(p) ==
    /\ wpc[p] \in {"stat", "open", "rows"}
    /\ lock' = "free"
    /\ wpc' = [wpc EXCEPT ![p] = "failed"]
    /\ UNCHANGED <<logfile, write_header, wrote, nrows, roundVars, outerVars>>

NextLog ==
    \E p \in Procs :
        \/ LockAcquire(p)
        \/ LockTimeout(p)
        \/ StatLog(p)
        \/ WriteHeader(p)
        \/ WriteRow(p)
        \/ CloseAndRelease(p)
        \/ WriteRaises(p)

SpecLog == InitLog /\ [][NextLog]_vars

----------------------------------------------------------------------------
(* monitor_loop: the process "monitor" calls run_checks_and_log at the times *)
(* of day of SCHEDULED_TIMES, or every MONITOR_INTERVAL seconds.  A round is *)
(* followed from the moment it has its rows; the instant check may be        *)
(* writing the log meanwhile.                                                *)

MaxStarts == 2

SECONDS_PER_DAY == 86400
WINDOW == 30
SLEEP == 10

\* configurations: the times of day (minutes after 00:00), the interval
SCHEDULES == {<<0>>, <<1, 2>>}
INTERVALS == {0, 25}
\* the second of the first day at which the process is started
START_CLOCKS == {5}
\* how long a call of run_checks_and_log can take, in seconds
ROUND_SECONDS == {5, 65}

None == Str("None")
Abs(x) == IF x < 0 THEN -x ELSE x

\* datetime.date() of an instant
DateOf(t) == t \div SECONDS_PER_DAY
\* now.replace(hour=scheduled_time.hour, minute=scheduled_time.minute, second=0)
TargetOf(t, scheduled_time) == DateOf(t) * SECONDS_PER_DAY + 60 * scheduled_time
\* abs((now - target_datetime).total_seconds()) < 30
InWindow(t, scheduled_time) == Abs(t - TargetOf(t, scheduled_time)) < WINDOW

NotRunToday_Always(last_run, t) == TRUE

\* last_run is None or last_run.date() != now.date()
NotRunToday(last_run, t) == last_run = None \/ DateOf(last_run.num) # DateOf(t)

\* last_run_time is None or (now - last_run_time).total_seconds() >= MONITOR_INTERVAL
IntervalDue(last, t, interval) == last = None \/ t - last.num >= interval

InitLoop ==
    /\ sites = <<SiteAlpha>>
    /\ whois_lookup = "module"
    /\ pc = "loop"
    /\ idx = 2
    /\ now = 0
    /\ results = NoResults
    /\ notes = ""
    /\ answers = <<>>
    /\ ip_addr = "None"
    /\ rows = <<>>
    /\ rowObs = <<>>
    /\ alerts = <<>>
    /\ errors = <<>>
    /\ written = "no"
    /\ obs = NoObs
    /\ remote = AnyRemote
    /\ earlier = <<>>
    /\ lock = "free"
    /\ write_header = [p \in Procs |-> FALSE]
    /\ wrote = [p \in Procs |-> 0]
    /\ \/ /\ is_scheduled_run = TRUE
          /\ scheduled_times \in SCHEDULES
          /\ monitor_interval = 1800
          /\ wpc = [p \in Procs |-> "idle"]
          /\ nrows = [p \in Procs |-> 1]
          /\ logfile = <<>>
       \/ /\ is_scheduled_run = FALSE
          /\ scheduled_times = <<>>
          /\ monitor_interval \in INTERVALS
          /\ wpc = [p \in Procs |-> IF p = "monitor" THEN "idle" ELSE "start"]
          /\ \E n \in 1..MaxRows :
                nrows = [p \in Procs |-> IF p = "monitor" THEN n ELSE 1]
          /\ logfile \in {<<>>, <<fieldnames, OldRow>>}
    /\ clock \in START_CLOCKS
    /\ loop_now = clock
    /\ last_run_date_times = [t \in Range(scheduled_times) |-> None]
    /\ last_run_time = None
    /\ lpc = "while"
    /\ pending = <<>>
    /\ started = <<>>

\* both conditions of the for-loop body: inside the window and not yet run today
IsDue(t, scheduled_time) ==
    /\ InWindow(t, scheduled_time)
    /\ NotRunToday(last_run_date_times[scheduled_time], t)

\* the rest of the for-loop over q, from the first time of day that is due at t
RECURSIVE FromFirstDue(_, _)
FromFirstDue(q, t) ==
    IF q = <<>> THEN <<>>
    ELSE IF IsDue(t, Head(q)) THEN q
    ELSE FromFirstDue(Tail(q), t)

\* while True: now = datetime.now(...); nothing is due; time.sleep(10)
LoopIdle ==
    /\ lpc = "while"
    /\ Len(started) < MaxStarts
    /\ IF is_scheduled_run
       THEN FromFirstDue(scheduled_times, clock) = <<>>
       ELSE ~IntervalDue(last_run_time, clock, monitor_interval)
    /\ loop_now' = clock
    /\ clock' = clock + SLEEP
    /\ UNCHANGED <<is_scheduled_run, scheduled_times, monitor_interval,
                   last_run_date_times, last_run_time, lpc, pending, started>>
    /\ UNCHANGED <<logfile, lockVars, roundVars, remote, earlier>>

\* now = datetime.now(...); the for-loop comes to a time of day that is inside
\* its window and has not run today: run_checks_and_log()
ScheduledRun ==
    /\ lpc = "while"
    /\ Len(started) < MaxStarts
    /\ is_scheduled_run
    /\ FromFirstDue(scheduled_times, clock) # <<>>
    /\ loop_now' = clock
    /\ pending' = FromFirstDue(scheduled_times, clock)
    /\ started' = Append(started, [time |-> Head(pending'), at |-> clock,
                                   begin |-> clock, end |-> -1, written |-> "no",
                                   wrote |-> 0])
    /\ wpc' = [wpc EXCEPT !["monitor"] = "start"]
    /\ write_header' = [write_header EXCEPT !["monitor"] = FALSE]
    /\ wrote' = [wrote EXCEPT !["monitor"] = 0]
    /\ lpc' = "round"
    /\ UNCHANGED <<is_scheduled_run, scheduled_times, monitor_interval, clock,
                   last_run_date_times, last_run_time>>
    /\ UNCHANGED <<logfile, lock, nrows, roundVars, remote, earlier>>

\* the for-loop goes on after the round, with the now it read before it, and
\* finds no other time of day due; time.sleep(10)
ScheduledDone ==
    /\ lpc = "for"
    /\ FromFirstDue(pending, loop_now) = <<>>
    /\ pending' = <<>>
    /\ clock' = clock + SLEEP
    /\ lpc' = "while"
    /\ UNCHANGED <<is_scheduled_run, scheduled_times, monitor_interval, loop_now,
                   last_run_date_times, last_run_time, started>>
    /\ UNCHANGED <<logfile, lockVars, roundVars, remote, earlier>>

\* now = datetime.now(); the first pass, or the interval has passed:
\* run_checks_and_log()
IntervalRun ==
    /\ lpc = "while"
    /\ Len(started) < MaxStarts
    /\ ~is_scheduled_run
    /\ IntervalDue(last_run_time, clock, monitor_interval)
    /\ loop_now' = clock
    /\ started' = Append(started, [time |-> -1, at |-> clock,
                                   begin |-> clock, end |-> -1, written |-> "no",
                                   wrote |-> 0])
    /\ wpc' = [wpc EXCEPT !["monitor"] = "start"]
    /\ write_header' = [write_header EXCEPT !["monitor"] = FALSE]
    /\ wrote' = [wrote EXCEPT !["monitor"] = 0]
    /\ lpc' = "round"
    /\ UNCHANGED <<is_scheduled_run, scheduled_times, monitor_interval, clock,
                   last_run_date_times, last_run_time, pending>>
    /\ UNCHANGED <<logfile, lock, nrows, roundVars, remote, earlier>>

\* run_checks_and_log returns, its log written or the failure logged, and the
\* loop notes now as the time of the last run
RoundReturn ==
    /\ lpc = "round"
    /\ wpc["monitor"] \in {"done", "failed"}
    /\ \E d \in ROUND_SECONDS : clock' = clock + d
    /\ started' = [started EXCEPT ![Len(started)] =
                       [@ EXCEPT !.end = clock',
                                 !.written = IF wpc["monitor"] = "done"
                                             THEN "ok" ELSE "failed",
                                 !.wrote = wrote["monitor"]]]
    /\ wpc' = [wpc EXCEPT !["monitor"] = "idle"]
    /\ IF is_scheduled_run
       THEN /\ last_run_date_times' =
                   [last_run_date_times EXCEPT ![Head(pending)] = Num(loop_now)]
            /\ pending' = Tail(pending)
            /\ lpc' = "for"
            /\ UNCHANGED last_run_time
       ELSE /\ last_run_time' = Num(loop_now)
            /\ lpc' = "sleep"
            /\ UNCHANGED <<last_run_date_times, pending>>
    /\ UNCHANGED <<is_scheduled_run, scheduled_times, monitor_interval, loop_now>>
    /\ UNCHANGED <<logfile, lock, write_header, wrote, nrows, roundVars, remote,
                   earlier>>

\* time.sleep(10)
Sleep ==
    /\ lpc = "sleep"
    /\ clock' = clock + SLEEP
    /\ lpc' = "while"
    /\ UNCHANGED <<is_scheduled_run, scheduled_times, monitor_interval, loop_now,
                   last_run_date_times, last_run_time, pending, started>>
    /\ UNCHANGED <<logfile, lockVars, roundVars, remote, earlier>>

NextLoop ==
    \/ LoopIdle
    \/ ScheduledRun
    \/ ScheduledDone
    \/ IntervalRun
    \/ RoundReturn
    \/ Sleep
    \/ NextLog

SpecLoop == InitLoop /\ [][NextLoop]_vars

----------------------------------------------------------------------------
(* Properties *)

Recorded == {rowObs[k].site : k \in 1..Len(rowObs)}
Emitted == 1..Len(rows)
SiteOf(k) == sites[rowObs[k].site]
AlertsFor(i) == {j \in 1..Len(alerts) : alerts[j].site = i}
NameCell(site) == Cell(Get(site, "name", Str("")))

ExpectedOf(site) == Get(site, "expected_status", Num(200)).num
DownWith(code) == "Down (" \o ToString(code) \o ")"
MismatchNote(expected, code) ==
    "Expected status " \o ToString(expected) \o ", but got " \o ToString(code) \o "."
KeywordMissingNote(kw) == "Keyword '" \o kw \o "' not found in content."

\* the entries of a list with one blank between neighbours
RECURSIVE Joined(_)
Joined(q) ==
    IF q = <<>> THEN ""
    ELSE IF Len(q) = 1 THEN q[1]
    ELSE q[1] \o " " \o Joined(Tail(q))

\* the texts the properties look for in notes
NoteTexts ==
    {"DNS lookup failed.", "ICMP ping failed.", "HTTP request failed.", "Expected status",
     "Keyword '", "SSL check failed.", "Domain check failed", "Domain check failed: N/A.",
     "Domain check failed: WHOIS Failed."}
    \cup {MismatchNote(e, c) : e, c \in STATUS_CODES}
    \cup {KeywordMissingNote("Home")}

NonEmpty(x) == x # ""

\* strings that are some of the notes, in probe order, one blank between them
KnownNotes ==
    {Joined(SelectSeq(<<a, b, c, d, e, f>>, NonEmpty)) :
        a \in {"", "DNS lookup failed."},
        b \in {"", "ICMP ping failed."},
        c \in {"", "HTTP request failed."} \cup {MismatchNote(x, y) : x, y \in STATUS_CODES},
        d \in {"", KeywordMissingNote("Home")},
        e \in {"", "SSL check failed."},
        f \in {"", "Domain check failed: N/A.", "Domain check failed: WHOIS Failed."}}

\* Occurrences, computed once for the strings above and on demand for any other
CountTable == [n \in KnownNotes |-> [t \in NoteTexts |-> Occurrences(n, t)]]
Count(n, t) ==
    IF n \in KnownNotes /\ t \in NoteTexts THEN CountTable[n][t] ELSE Occurrences(n, t)

\* C1: a site whose configuration has enabled=false yields nothing in a round:
\* check_site is left before any probe, no record joins rows, no line of the
\* log is for it, no alert is sent for it, and it is not logged as failing.
C1_DisabledSiteEmitsNothing ==
    \A i \in 1..Len(sites) :
        ~Truthy(Get(sites[i], "enabled", Bool(TRUE))) =>
            /\ i \notin Recorded
            /\ obs.site # i
            /\ ~(InSite /\ idx = i)
            /\ AlertsFor(i) = {}
            /\ i \notin Range(errors)
            /\ \A k \in Emitted : rows[k]["Website Name"] # Get(sites[i], "name", Str(""))
            /\ \A n \in 1..Len(logfile) : logfile[n][2] # NameCell(sites[i])

\* a finished round that wrote the records of sites on both sides of a disabled one
C1_Witness ==
    /\ pc = "done" /\ written = "ok"
    /\ \E i \in 1..Len(sites) :
        /\ ~Truthy(Get(sites[i], "enabled", Bool(TRUE)))
        /\ \E a, b \in Recorded : a < i /\ i < b
        /\ Len(logfile) = Len(rows) + 1

C3_SlowIffUpAndOverThreshold ==
    \A k \in Emitted :
        LET t == rows[k]["HTTP Time (ms)"]
            slow == /\ rowObs[k].http_status = "Up"
                    /\ t.kind = "num"
                    /\ t.num > RESPONSE_TIME_THRESHOLD
        IN  /\ (rows[k]["Status"] = Str("Up (Slow)")) <=> slow
            /\ ~slow => rows[k]["Status"] = Str(rowObs[k].http_status)

\* records of all four kinds: upgraded, Up at the threshold, Down over the
\* threshold, Down with HTTP Time "Failed"
C3_Witness ==
    /\ \E k \in Emitted : rows[k]["Status"] = Str("Up (Slow)")
    /\ \E k \in Emitted :
        \/ /\ rows[k]["Status"] = Str("Up")
           /\ rows[k]["HTTP Time (ms)"] = Num(RESPONSE_TIME_THRESHOLD)
        \/ /\ rowObs[k].http = "response" /\ rowObs[k].http_status # "Up"
           /\ rows[k]["HTTP Time (ms)"] = Num(RESPONSE_TIME_THRESHOLD + 1)
        \/ rows[k]["HTTP Time (ms)"] = Str("Failed")

\* C4: when the request returns a response, a code equal to the expected one
\* gives Status "Up", no status note and no alert; any other code gives
\* Status "Down (<code>)", the note "Expected status X, but got Y." once, and
\* one alert -- right after the HTTP probe and in the emitted record.
C4_StatusFromResponse ==
    /\ (pc = "ssl" /\ obs.http = "response") =>
          IF obs.code = ExpectedOf(Site)
          THEN /\ results["Status"] = Str("Up")
               /\ Count(notes, "Expected status") = 0
               /\ AlertsFor(idx) = {}
          ELSE /\ results["Status"] = Str(DownWith(obs.code))
               /\ Count(notes, MismatchNote(ExpectedOf(Site), obs.code)) = 1
               /\ Count(notes, "Expected status") = 1
               /\ Cardinality(AlertsFor(idx)) = 1
    /\ \A k \in Emitted :
          rowObs[k].http = "response" =>
              IF rowObs[k].code = ExpectedOf(SiteOf(k))
              THEN /\ rows[k]["Status"].str \in {"Up", "Up (Slow)"}
                   /\ Count(rows[k]["Notes"].str, "Expected status") = 0
                   /\ AlertsFor(rowObs[k].site) = {}
              ELSE /\ rows[k]["Status"] = Str(DownWith(rowObs[k].code))
                   /\ Count(rows[k]["Notes"].str,
                                  MismatchNote(ExpectedOf(SiteOf(k)), rowObs[k].code)) = 1
                   /\ Cardinality(AlertsFor(rowObs[k].site)) = 1

\* a 503 where 200 was expected is on record with its alert, and a 200 where
\* 503 was expected has just been marked Down (200)
C4_Witness ==
    /\ \E k \in Emitted :
        /\ ExpectedOf(SiteOf(k)) = 200
        /\ rows[k]["Status"] = Str("Down (503)")
        /\ Cardinality(AlertsFor(rowObs[k].site)) = 1
    /\ pc = "ssl" /\ obs.http = "response" /\ obs.code = 200 /\ ExpectedOf(Site) = 503
    /\ results["Status"] = Str("Down (200)")

\* C5: when the request raises a RequestException the record is still emitted,
\* after the TLS and domain probes ran, with Status "Down (HTTP Error)", HTTP
\* Time and Content Size "Failed", the note "HTTP request failed." and one alert.
C5_RequestFailure ==
    /\ (InSite /\ obs.http = "request_exception") =>
          /\ pc \in {"ssl", "whois", "compose"}
          /\ results["Status"] = Str("Down (HTTP Error)")
          /\ Cardinality(AlertsFor(idx)) = 1
    /\ \A k \in Emitted :
          rowObs[k].http = "request_exception" =>
              /\ rows[k]["Status"] = Str("Down (HTTP Error)")
              /\ rows[k]["HTTP Time (ms)"] = Str("Failed")
              /\ rows[k]["Content Size (KB)"] = Str("Failed")
              /\ Count(rows[k]["Notes"].str, "HTTP request failed.") > 0
              /\ Cardinality(AlertsFor(rowObs[k].site)) = 1
              /\ rowObs[k].ssl # "none"
              /\ rowObs[k].whois # "none"
    /\ \A i \in Range(errors) : ConfigRaises(sites[i]) \/ HttpRaisesOther(sites[i])

\* the record of a failed request whose TLS probe then succeeded is in the log
C5_Witness ==
    /\ pc = "done" /\ written = "ok"
    /\ \E k \in Emitted :
        /\ rowObs[k].http = "request_exception"
        /\ rowObs[k].ssl = "ok"
        /\ rowObs[k].whois = "date"
        /\ logfile[k + 1][4] = "Down (HTTP Error)"

\* C6: in every emitted record HTTP Time is a number >= 0 or the string
\* "Failed", and it is "Failed" exactly when the request failed.
C6_HttpTimeNumberOrFailed ==
    \A k \in Emitted :
        LET t == rows[k]["HTTP Time (ms)"]
        IN  /\ \/ t.kind = "num" /\ t.num >= 0
               \/ t = Str("Failed")
            /\ (t = Str("Failed")) <=> (rowObs[k].http = "request_exception")
            /\ (t.kind = "num") <=> (rowObs[k].http = "response")

\* a measured HTTP Time of 0 and a failed request side by side
C6_Witness ==
    /\ \E k \in Emitted : rows[k]["HTTP Time (ms)"] = Num(0) /\ rowObs[k].http = "response"
    /\ \E k \in Emitted : rows[k]["HTTP Time (ms)"] = Str("Failed")

\* the probe that feeds a field of the record failed or did not run
ProbeFailed(o, f) ==
    CASE f = "Ping (ms)" -> o.ping # "alive"
      [] f = "DNS Time (ms)" -> o.dns # "ok"
      [] f \in {"HTTP Time (ms)", "Content Size (KB)", "Redirects"} -> o.http # "response"
      [] f = "SSL Days Left" -> o.ssl # "ok"
      [] f = "Domain Days Left" -> o.whois # "date"
      [] OTHER -> FALSE

NumericFields ==
    {"Ping (ms)", "HTTP Time (ms)", "DNS Time (ms)", "Content Size (KB)", "Redirects",
     "SSL Days Left", "Domain Days Left"}

\* C7: in every emitted record a numeric-typed field (Ping, HTTP Time, DNS
\* Time, Content Size, Redirects, SSL Days Left, Domain Days Left) whose probe
\* failed or did not run holds a sentinel string, never a number.
C7_NoNumberForFailure ==
    \A k \in Emitted : \A f \in NumericFields :
        ProbeFailed(rowObs[k], f) => rows[k][f].kind = "str"

\* C8: a failed DNS probe gives DNS Time "Failed", no address and the note
\* "DNS lookup failed." once; a successful one gives a numeric DNS Time, the
\* first address of the answer and no note; the HTTP, TLS and domain probes
\* run after either.
C8_DnsProbeOutcome ==
    /\ pc = "icmp" =>
          /\ obs.dns = "failed" =>
                /\ ip_addr = "None"
                /\ results["DNS Time (ms)"] = Str("Failed")
                /\ Count(notes, "DNS lookup failed.") = 1
          /\ obs.dns = "ok" =>
                /\ ip_addr = answers[1]
                /\ results["DNS Time (ms)"].kind = "num"
                /\ Count(notes, "DNS lookup failed.") = 0
    /\ \A k \in Emitted :
          /\ rowObs[k].dns \in {"ok", "failed"}
          /\ rowObs[k].dns = "failed" =>
                /\ rows[k]["DNS Time (ms)"] = Str("Failed")
                /\ Count(rows[k]["Notes"].str, "DNS lookup failed.") = 1
                /\ rowObs[k].http # "none"
                /\ rowObs[k].ssl # "none"
                /\ rowObs[k].whois # "none"
          /\ rowObs[k].dns = "ok" =>
                /\ rows[k]["DNS Time (ms)"].kind = "num"
                /\ Count(rows[k]["Notes"].str, "DNS lookup failed.") = 0

\* after a failed resolution the request got a response and the certificate was
\* read; and an answer of two addresses is about to be pinged
C8_Witness ==
    /\ \E k \in Emitted :
        /\ rowObs[k].dns = "failed"
        /\ rowObs[k].http = "response"
        /\ rowObs[k].ssl = "ok"
    /\ pc = "icmp" /\ Len(answers) = 2

\* C9: the ping is attempted only when ICMP is enabled for the site and the
\* DNS probe gave an address; otherwise it is not attempted and Ping is "N/A".
C9_PingOnlyWithIcmpAndAddress ==
    /\ (InSite /\ obs.ping # "none") =>
          Truthy(Get(Site, "use_icmp", Bool(USE_ICMP_BY_DEFAULT))) /\ obs.dns = "ok"
    /\ \A k \in Emitted :
          LET icmp == Truthy(Get(SiteOf(k), "use_icmp", Bool(USE_ICMP_BY_DEFAULT)))
          IN  /\ rowObs[k].ping # "none" => (icmp /\ rowObs[k].dns = "ok")
              /\ (~icmp \/ rowObs[k].dns # "ok") =>
                    /\ rowObs[k].ping = "none"
                    /\ rows[k]["Ping (ms)"] = Str("N/A")
              /\ (icmp /\ rowObs[k].dns = "ok") =>
                    /\ rowObs[k].ping # "none"
                    /\ rows[k]["Ping (ms)"] # Str("N/A")

\* one round with a ping that ran and a ping skipped for a site without ICMP
\* whose name resolved
C9_Witness ==
    /\ \E k \in Emitted : rowObs[k].ping = "alive"
    /\ \E k \in Emitted :
        /\ ~Truthy(Get(SiteOf(k), "use_icmp", Bool(USE_ICMP_BY_DEFAULT)))
        /\ rowObs[k].dns = "ok"
        /\ rows[k]["Ping (ms)"] = Str("N/A")

\* C10 as claimed: after a failed DNS probe the ping is not attempted, and Ping
\* is "N/A" when ICMP is disabled for the site and "Failed" when it is enabled.
C10_PingFailedWhenIcmpEnabled ==
    \A k \in Emitted :
        rowObs[k].dns = "failed" =>
            /\ rowObs[k].ping = "none"
            /\ rows[k]["Ping (ms)"] =
                  IF Truthy(Get(SiteOf(k), "use_icmp", Bool(USE_ICMP_BY_DEFAULT)))
                  THEN Str("Failed") ELSE Str("N/A")

\* C10 amended: after a failed DNS probe the ping is not attempted and Ping is
\* "N/A" whatever the ICMP setting of the site; it is never left at "Failed".
C10_PingSkippedAfterDnsFailure ==
    /\ (pc \in {"http", "ssl", "whois", "compose"} /\ obs.dns = "failed") =>
          obs.ping = "none" /\ results["Ping (ms)"] = Str("N/A")
    /\ \A k \in Emitted :
          rowObs[k].dns = "failed" =>
              /\ rowObs[k].ping = "none"
              /\ rows[k]["Ping (ms)"] = Str("N/A")

\* a site with ICMP enabled whose name did not resolve has Ping "N/A" on record
C10_Witness ==
    \E k \in Emitted :
        /\ Truthy(Get(SiteOf(k), "use_icmp", Bool(USE_ICMP_BY_DEFAULT)))
        /\ rowObs[k].dns = "failed"
        /\ rows[k]["Ping (ms)"] = Str("N/A")

\* C11: a ping that was attempted has three outcomes: a number when the host
\* is alive with an average round-trip time; "Failed" and no note when the ping
\* returned without both; "Error" and the note "ICMP ping failed." once when
\* the transport raised.  None is "N/A", and Status, still the initial "Down"
\* when the HTTP probe starts, is the one the HTTP outcome gives.
C11_PingOutcomes ==
    /\ (pc = "http" /\ obs.ping # "none") =>
          /\ results["Status"] = Str("Down")
          /\ results["Ping (ms)"] # Str("N/A")
          /\ (obs.ping = "raised") <=> Count(notes, "ICMP ping failed.") > 0
    /\ \A k \in Emitted :
          LET o == rowObs[k]
              ping == rows[k]["Ping (ms)"]
              n == rows[k]["Notes"].str
          IN  /\ o.ping = "alive" => (ping.kind = "num" /\ Count(n, "ICMP ping failed.") = 0)
              /\ o.ping = "noreply" => (ping = Str("Failed") /\ Count(n, "ICMP ping failed.") = 0)
              /\ o.ping = "raised" => (ping = Str("Error") /\ Count(n, "ICMP ping failed.") = 1)
              /\ o.ping # "none" =>
                    /\ ping # Str("N/A")
                    /\ rows[k]["Status"].str \in {o.http_status, "Up (Slow)"}
                    /\ StartsWith(rows[k]["Status"].str, "Up") <=> (o.http_status = "Up")

\* a transport error of the ping on record as "Error" with its note as the
\* only note, in a record whose Status is "Up"
C11_Witness ==
    \E k \in Emitted :
        /\ rowObs[k].ping = "raised"
        /\ rows[k]["Ping (ms)"] = Str("Error")
        /\ rows[k]["Notes"] = Str("ICMP ping failed.")
        /\ rows[k]["Status"] = Str("Up")

\* what the descriptor says about the keyword
KeywordOf(site) == IF "keyword" \in DOMAIN site THEN site["keyword"] ELSE Str("")
KeywordSupplied(site) == KeywordOf(site) \notin {Str(""), Num(0)}
KeywordFlag(site) ==
    IF "check_keyword" \in DOMAIN site THEN site["check_keyword"] = Bool(TRUE)
    ELSE KeywordSupplied(site)
KeywordConfigured(site) == KeywordFlag(site) /\ KeywordSupplied(site)
\* the bodies a response can have, in lower case
LowerBody == [t \in {p.text : p \in PAGES} |-> Lower(t)]

\* C12 as claimed: whenever the keyword flag is set and a keyword is supplied,
\* Keyword Check is "Pass", "Fail" or "Error", whether or not the request
\* succeeded; in every other case it is "Skipped".
C12_KeywordIndependentOfRequest ==
    \A k \in Emitted :
        IF KeywordConfigured(SiteOf(k))
        THEN rows[k]["Keyword Check"].str \in {"Pass", "Fail", "Error"}
        ELSE rows[k]["Keyword Check"] = Str("Skipped")

\* C12 amended: when the request returned a response, the flag is set and a
\* keyword is supplied, Keyword Check is "Pass" if the body holds the keyword
\* ignoring case, "Fail" with the note "Keyword '<kw>' not found in content."
\* once if not, "Error" without a note if the search raises; in every other
\* case, a failed request included, it is "Skipped".  "Fail" and "Error"
\* leave Status and the alerts as the response code set them.
C12_KeywordCheck ==
    \A k \in Emitted :
        LET site == SiteOf(k)
            o == rowObs[k]
            kw == KeywordOf(site)
            kc == rows[k]["Keyword Check"]
            n == rows[k]["Notes"].str
        IN  /\ IF KeywordConfigured(site) /\ o.http = "response"
               THEN IF kw.kind # "str" THEN kc = Str("Error") /\ Count(n, "Keyword '") = 0
                    ELSE IF Contains(LowerBody[o.text], Lower(kw.str))
                         THEN kc = Str("Pass") /\ Count(n, "Keyword '") = 0
                         ELSE /\ kc = Str("Fail")
                              /\ Count(n, KeywordMissingNote(kw.str)) = 1
                              /\ Count(n, "Keyword '") = 1
               ELSE kc = Str("Skipped") /\ Count(n, "Keyword '") = 0
            /\ kc.str \in {"Fail", "Error"} =>
                  /\ rows[k]["Status"].str \in {o.http_status, "Up (Slow)"}
                  /\ StartsWith(rows[k]["Status"].str, "Up") <=> (o.code = ExpectedOf(site))
                  /\ Cardinality(AlertsFor(o.site)) = IF o.code = ExpectedOf(site) THEN 0 ELSE 1

\* a keyword that is not in the body is on record as "Fail" with its note,
\* in a record whose Status is "Up" and for which no alert was sent
C12_Witness ==
    \E k \in Emitted :
        /\ rows[k]["Keyword Check"] = Str("Fail")
        /\ rows[k]["Notes"] = Str(KeywordMissingNote("Home"))
        /\ rows[k]["Status"] = Str("Up")
        /\ AlertsFor(rowObs[k].site) = {}

\* a date and time in ISO 8601 form
IsTimestamp(v) ==
    /\ v.kind = "str" /\ Len(v.str) >= 19
    /\ SubSeq(v.str, 5, 5) = "-" /\ SubSeq(v.str, 8, 8) = "-" /\ SubSeq(v.str, 11, 11) = "T"

\* C13: a failed TLS probe gives SSL Days Left "Failed", SSL Expiry Date "N/A"
\* and the note "SSL check failed." once; a successful one gives the whole
\* days to notAfter rounded down (negative once notAfter has passed), an ISO
\* SSL Expiry Date and no note.  In every record SSL Days Left is a number
\* exactly when SSL Expiry Date is a timestamp, and it is never "N/A".
C13_TlsOutcome ==
    /\ pc \in {"whois", "compose"} =>
          /\ results["SSL Days Left"] # Str("N/A")
          /\ (results["SSL Days Left"].kind = "num") <=> IsTimestamp(results["SSL Expiry Date"])
    /\ \A k \in Emitted :
          LET o == rowObs[k]
              days == rows[k]["SSL Days Left"]
              date == rows[k]["SSL Expiry Date"]
              n == rows[k]["Notes"].str
          IN  /\ o.ssl \in {"ok", "failed"}
              /\ o.ssl = "failed" =>
                    /\ days = Str("Failed")
                    /\ date = Str("N/A")
                    /\ Count(n, "SSL check failed.") = 1
              /\ o.ssl = "ok" =>
                    /\ days.kind = "num"
                    /\ 24 * days.num <= o.remaining
                    /\ o.remaining < 24 * (days.num + 1)
                    /\ (days.num < 0) <=> (o.remaining < 0)
                    /\ IsTimestamp(date)
                    /\ Count(n, "SSL check failed.") = 0
              /\ (days.kind = "num") <=> IsTimestamp(date)
              /\ days # Str("N/A")

\* a certificate whose notAfter passed an hour ago is on record with -1 days
\* and its date, and the next site's TLS probe has just failed
C13_Witness ==
    /\ \E k \in Emitted :
        /\ rowObs[k].ssl = "ok" /\ rowObs[k].remaining = -1
        /\ rows[k]["SSL Days Left"] = Num(-1)
        /\ IsTimestamp(rows[k]["SSL Expiry Date"])
    /\ pc = "whois" /\ obs.ssl = "failed"
    /\ results["SSL Days Left"] = Str("Failed") /\ results["SSL Expiry Date"] = Str("N/A")

\* the first entry of an expiration_date that is a date
FirstValid(e) ==
    e.items[CHOOSE j \in 1..Len(e.items) :
                e.items[j].isdate /\ \A i \in 1..(j - 1) : ~e.items[i].isdate]

C15_WhoisUnavailable ==
    whois_lookup = "None" =>
        /\ (InSite /\ obs.whois # "none") =>
              /\ obs.whois = "unavailable"
              /\ obs.expiration_date = NoExpiration
              /\ results["Domain Days Left"] = Str("N/A")
              /\ results["Domain Expiry Date"] = Str("N/A")
        /\ \A k \in Emitted :
              /\ rowObs[k].whois = "unavailable"
              /\ rows[k]["Domain Days Left"] = Str("N/A")
              /\ rows[k]["Domain Expiry Date"] = Str("N/A")
        /\ pc = "done" =>
              /\ idx = Len(sites) + 1
              /\ \A i \in 1..Len(sites) :
                    (Truthy(Get(sites[i], "enabled", Bool(TRUE))) /\ i \notin Range(errors))
                        => i \in Recorded
              /\ written = "ok" =>
                    \A k \in Emitted :
                        /\ logfile[k + 1][13] = "N/A"
                        /\ logfile[k + 1][14] = "N/A"

\* without the whois module a round of two checked sites is finished and written
C15_Witness ==
    /\ whois_lookup = "None"
    /\ pc = "done" /\ written = "ok"
    /\ Len(rows) = 2 /\ Len(logfile) = 3
    /\ \A k \in Emitted : rows[k]["Domain Days Left"] = Str("N/A")

\* the anomaly notes of a check, in the order of the probes
AnomalyNotes(k) ==
    LET o == rowObs[k]
        site == SiteOf(k)
    IN  (IF o.dns = "failed" THEN <<"DNS lookup failed.">> ELSE <<>>)
        \o (IF o.ping = "raised" THEN <<"ICMP ping failed.">> ELSE <<>>)
        \o (IF o.http = "request_exception" THEN <<"HTTP request failed.">>
            ELSE IF o.code # ExpectedOf(site)
                 THEN <<MismatchNote(ExpectedOf(site), o.code)>> ELSE <<>>)
        \o (IF rows[k]["Keyword Check"] = Str("Fail")
            THEN <<KeywordMissingNote(KeywordOf(site).str)>> ELSE <<>>)
        \o (IF o.ssl = "failed" THEN <<"SSL check failed.">> ELSE <<>>)
        \o (IF o.whois = "raised" THEN <<"Domain check failed: WHOIS Failed.">>
            ELSE IF o.whois # "date" THEN <<"Domain check failed: N/A.">> ELSE <<>>)

\* every probe of the check succeeded, and the code is the expected one
AllProbesSucceeded(k) ==
    LET o == rowObs[k]
    IN  /\ o.dns = "ok"
        /\ o.ping \in {"alive", "none"}
        /\ o.http = "response" /\ o.code = ExpectedOf(SiteOf(k))
        /\ rows[k]["Keyword Check"].str \in {"Pass", "Skipped"}
        /\ o.ssl = "ok"
        /\ o.whois = "date"

NotesComposed(k) ==
    /\ rows[k]["Notes"] = Str(Joined(AnomalyNotes(k)))
    /\ (rows[k]["Notes"] = Str("")) <=> (AnomalyNotes(k) = <<>>)

\* C16 as claimed: Notes is the trimmed concatenation of the anomaly notes in
\* probe order, empty exactly when there is none, and a site that returns the
\* expected status with all probes succeeding has Status "Up" and Notes "".
C16_AllSucceededIsUp ==
    \A k \in Emitted :
        /\ NotesComposed(k)
        /\ AllProbesSucceeded(k) =>
              rows[k]["Status"] = Str("Up") /\ rows[k]["Notes"] = Str("")

\* C16 amended: Notes is the anomaly notes of the probes in probe order (DNS,
\* ICMP, HTTP status or request, keyword, TLS, domain), each once, one blank
\* between neighbours and none at either end; it is empty exactly when no
\* probe added a note.  A site that returns the expected status with all
\* probes succeeding has Notes "" and Status "Up", or "Up (Slow)" when its
\* HTTP Time exceeds the threshold.
C16_NotesComposition ==
    \A k \in Emitted :
        /\ NotesComposed(k)
        /\ Len(AnomalyNotes(k)) <= 6
        /\ AllProbesSucceeded(k) =>
              /\ rows[k]["Notes"] = Str("")
              /\ rows[k]["Status"] =
                    IF rows[k]["HTTP Time (ms)"].num > RESPONSE_TIME_THRESHOLD
                    THEN Str("Up (Slow)") ELSE Str("Up")

\* a record with four notes in probe order beside a record without any, whose
\* site answered the expected code in more than the threshold
C16_Witness ==
    /\ \E k \in Emitted :
        rows[k]["Notes"] = Str("DNS lookup failed. HTTP request failed. "
                               \o "SSL check failed. Domain check failed: WHOIS Failed.")
    /\ \E k \in Emitted :
        /\ AllProbesSucceeded(k)
        /\ rows[k]["Notes"] = Str("")
        /\ rows[k]["Status"] = Str("Up (Slow)")

\* the HTTP outcome of a check: a response and its code, or a failed request,
\* and HTTP Time
HttpOutcome(k) == <<rowObs[k].http, rowObs[k].code, rows[k]["HTTP Time (ms)"]>>

\* C17: Status depends on the HTTP outcome only.  Two checks of the same
\* descriptor that agree on the response code or the request failure and on
\* HTTP Time have the same Status, whatever the DNS, ping, keyword, TLS and
\* domain probes did; and while the TLS and domain probes run, Status stays
\* what the HTTP probe set.
C17_StatusDependsOnHttpOnly ==
    /\ pc \in {"whois", "compose"} => results["Status"] = Str(obs.http_status)
    /\ \A j, k \in Emitted :
          (SiteOf(j) = SiteOf(k) /\ HttpOutcome(j) = HttpOutcome(k))
              => rows[j]["Status"] = rows[k]["Status"]

\* two checks with the expected code in the same time, both "Up": one with a
\* certificate of 10 days, a ping reply and the keyword found, the other with
\* a failed TLS check, a failed resolution and the keyword missing
C17_Witness ==
    /\ Len(rows) = 2
    /\ SiteOf(1) = SiteOf(2) /\ HttpOutcome(1) = HttpOutcome(2)
    /\ rows[1]["Status"] = Str("Up") /\ rows[2]["Status"] = Str("Up")
    /\ rows[1]["SSL Days Left"] = Num(10) /\ rows[2]["SSL Days Left"] = Str("Failed")
    /\ rowObs[1].ping = "alive" /\ rowObs[2].dns = "failed"
    /\ rows[1]["Keyword Check"] = Str("Pass") /\ rows[2]["Keyword Check"] = Str("Fail")
    /\ rowObs[1].whois = "date" /\ rowObs[2].whois = "raised"

\* C18: send_email is called for a site exactly when the response code is not
\* the expected one or the request failed, and then once: no alert before the
\* HTTP probe, none for a site that is disabled or was left by an exception,
\* none for any other anomaly.  The sites with an alert are those whose record
\* has a Status beginning with "Down".
C18_AlertIffDown ==
    /\ \A i \in 1..Len(sites) :
          /\ Cardinality(AlertsFor(i)) <= 1
          /\ AlertsFor(i) # {} => (i \in Recorded \/ (pc \notin {"loop", "done"} /\ i = idx))
    /\ \A j \in 1..Len(alerts) : alerts[j].site \in 1..Len(sites)
    /\ (InSite /\ obs.http = "none") => AlertsFor(idx) = {}
    /\ \A k \in Emitted :
          LET o == rowObs[k]
              trigger == \/ o.http = "request_exception"
                         \/ o.http = "response" /\ o.code # ExpectedOf(SiteOf(k))
          IN  /\ Cardinality(AlertsFor(o.site)) = IF trigger THEN 1 ELSE 0
              /\ (AlertsFor(o.site) # {}) <=> StartsWith(rows[k]["Status"].str, "Down")

\* one alert in the round, for the site that answered another code; none for
\* the slow site whose resolution, keyword search, TLS and domain checks failed
C18_Witness ==
    /\ Len(alerts) = 1
    /\ \E k \in Emitted :
        /\ rows[k]["Status"] = Str("Down (503)")
        /\ AlertsFor(rowObs[k].site) # {}
    /\ \E k \in Emitted :
        /\ rows[k]["Status"] = Str("Up (Slow)")
        /\ rowObs[k].dns = "failed" /\ rowObs[k].ssl = "failed" /\ rowObs[k].whois = "raised"
        /\ rows[k]["Keyword Check"] = Str("Fail")
        /\ AlertsFor(rowObs[k].site) = {}

\* the places of the log where a line of the round of process p stands
LinesOf(p) == {n \in 1..Len(logfile) : logfile[n][1] = p}
Headers == {n \in 1..Len(logfile) : logfile[n] = fieldnames}

\* C19: the appends of concurrent rounds are serialized by the lock.  Only
\* the holder of the lock is between stat and close; the lines of a round
\* stand together in the log, in order, with no line of another round among
\* them, and a round that finished wrote all its rows; the log has one header,
\* its first line, written by a round that found the log empty under the lock.
C19_LogAppendsSerialized ==
    /\ \A p \in Procs : (wpc[p] \in {"stat", "open", "rows"}) <=> (lock = p)
    /\ \A p \in Procs :
          /\ Cardinality(LinesOf(p)) = wrote[p]
          /\ \A n \in LinesOf(p) : \A m \in LinesOf(p) :
                /\ \A between \in n..m : between \in LinesOf(p)
                /\ n < m => logfile[n] # logfile[m]
          /\ \A k \in 1..wrote[p] :
                \E n \in LinesOf(p) :
                    logfile[n] = RoundRow(p, k) /\ (k > 1 => logfile[n - 1] = RoundRow(p, k - 1))
          /\ wpc[p] = "done" => wrote[p] = nrows[p]
          /\ (lock = p /\ wrote[p] > 0) => Len(logfile) \in LinesOf(p)
          /\ (wpc[p] = "open" /\ write_header[p]) => logfile = <<>>
          /\ (wpc[p] = "rows" /\ write_header[p]) => logfile[1] = fieldnames
    /\ Cardinality(Headers) <= 1
    /\ logfile # <<>> => Headers = {1}

\* both rounds wrote two rows into a log that was empty: the header, then the
\* block of the one, then the block of the other
C19_Witness ==
    /\ \A p \in Procs : wpc[p] = "done" /\ wrote[p] = MaxRows
    /\ Len(logfile) = 1 + 2 * MaxRows
    /\ logfile[1] = fieldnames
    /\ logfile[2][1] = "run-now"
    /\ logfile[2 + MaxRows][1] = "monitor"

\* C20 as claimed: every probe returns or fails within its timeout, so a round
\* is never stuck: until it is done it can always take its next step.
C20_RoundNeverStuck == pc = "done" \/ ENABLED Next

\* the fields computed from the clock and an expiry
DaysFields == {"SSL Days Left", "Domain Days Left"}

IsPrefix(q, r) == Len(q) <= Len(r) /\ SubSeq(r, 1, Len(q)) = q
Block(rs) == [k \in 1..Len(rs) |-> RowOf(rs[k])]

\* the round before the one that is running or has just returned
Before == earlier[Len(earlier)]

\* what the later round leaves of the log, whatever its records are
LogAfter(e) ==
    /\ IsPrefix(e.logfile, logfile)
    /\ Cardinality(Headers) <= 1
    /\ pc = "done" /\ written = "ok" /\ e.written = "ok" =>
            logfile = <<fieldnames>> \o Block(e.rows) \o Block(rows)
    /\ pc = "done" /\ written # "ok" => logfile = e.logfile

\* C21 as claimed: with the same configuration and the same probe outcomes, the
\* records of the second round are those of the first in every field except
\* DateTime, and the second round keeps the lines of the first and writes no
\* second header.
C21_IdenticalButDateTime ==
    earlier # <<>> =>
        /\ LogAfter(Before)
        /\ Len(rows) <= Len(Before.rows)
        /\ pc = "done" => Len(rows) = Len(Before.rows)
        /\ \A k \in 1..Len(rows) :
               \A f \in FieldSet \ {"DateTime"} : rows[k][f] = Before.rows[k][f]

\* C21: a second round over the same configuration and the same state of the
\* network returns as many records as the first, for the same sites in the
\* same order, equal to the first round's in every field except DateTime and
\* the two days-left fields; a days-left field keeps its sentinel, or is a
\* number in both and not larger in the second, the clock having advanced.
\* The second round keeps the lines of the first as they are, appends its
\* own after them when it can write, and writes no second header.
C21_RoundRepeats ==
    earlier # <<>> =>
        /\ LogAfter(Before)
        /\ Len(rows) <= Len(Before.rows)
        /\ pc = "done" => Len(rows) = Len(Before.rows)
        /\ \A k \in 1..Len(rows) :
               /\ \A f \in FieldSet \ ({"DateTime"} \cup DaysFields) :
                      rows[k][f] = Before.rows[k][f]
               /\ \A f \in DaysFields :
                      \/ rows[k][f] = Before.rows[k][f]
                      \/ /\ IsNum(rows[k][f]) /\ IsNum(Before.rows[k][f])
                         /\ rows[k][f].num < Before.rows[k][f].num
               /\ rows[k]["DateTime"] # Before.rows[k]["DateTime"]

C21_Witness ==
    /\ pc = "done" /\ written = "ok"
    /\ Len(earlier) = 1 /\ Before.written = "ok"
    /\ Len(rows) = 2 /\ Len(logfile) = 5
    /\ rows[1]["Status"] = Str("Up") /\ rows[2]["Status"] = Str("Down (200)")
    /\ IsNum(rows[1]["SSL Days Left"])
    /\ rows[1]["SSL Days Left"].num < Before.rows[1]["SSL Days Left"].num
    /\ rows[2]["Domain Days Left"] = Before.rows[2]["Domain Days Left"]

\* the values Status can take in a record
StatusValues ==
    {"Up", "Up (Slow)", "Down (HTTP Error)"} \cup {DownWith(c) : c \in STATUS_CODES}

\* C23: no emitted record has Status "Down".  The record starts with it and
\* keeps it up to the HTTP probe, which either sets the Status or raises an
\* exception that makes the site be skipped; so every returned and every
\* logged Status is Up, Up (Slow), Down (<code>) or Down (HTTP Error), and it
\* is Down (HTTP Error) exactly when HTTP Time and Content Size are "Failed".
C23_NoBareDown ==
    /\ pc \in {"dns", "icmp", "http"} => results["Status"] = Str("Down")
    /\ pc \in {"ssl", "whois", "compose"} => results["Status"].str \in StatusValues
    /\ \A i \in Range(errors) : i \notin Recorded
    /\ \A k \in Emitted :
          /\ rows[k]["Status"] # Str("Down")
          /\ rows[k]["Status"].kind = "str"
          /\ rows[k]["Status"].str \in StatusValues
          /\ rows[k]["Status"] = Str("Down (HTTP Error)")
                <=> /\ rows[k]["HTTP Time (ms)"] = Str("Failed")
                    /\ rows[k]["Content Size (KB)"] = Str("Failed")
    /\ \A n \in 2..Len(logfile) :
          /\ logfile[n][4] \in StatusValues
          /\ logfile[n][4] = "Down (HTTP Error)"
                <=> logfile[n][6] = "Failed" /\ logfile[n][8] = "Failed"

\* a round in which one site's HTTP probe raised an exception that is no
\* RequestException and the site after it was logged as Down (<code>)
C23_Witness ==
    /\ pc = "done" /\ written = "ok"
    /\ errors # <<>>
    /\ \E i \in Range(errors) : HttpRaisesOther(sites[i])
    /\ \E n \in 2..Len(logfile) : logfile[n][4] = DownWith(200)
    /\ \E n \in 2..Len(logfile) : logfile[n][4] = "Up (Slow)"

\* the lines of a file that a round of process p wrote
LinesIn(file, p) == {n \in 1..Len(file) : file[n][1] = p}

\* the rows that the rounds of the loop that have returned wrote
RECURSIVE RowsWritten(_)
RowsWritten(q) == IF q = <<>> THEN 0 ELSE Head(q).wrote + RowsWritten(Tail(q))

\* a write failure is caught: run_checks_and_log returns to the loop, which
\* goes on; the lines of the loop's rounds are those they wrote themselves
FailureContained ==
    /\ lpc = "round" /\ wpc["monitor"] \in {"done", "failed"} => ENABLED RoundReturn
    /\ lpc # "round" => wpc["monitor"] = "idle"
    /\ \A p \in Procs : wpc[p] = "failed" => lock # p /\ wrote[p] <= nrows[p]
    /\ \A k \in 1..Len(started) :
          /\ started[k].written = "ok" => started[k].wrote = nrows["monitor"]
          /\ started[k].written = "failed" =>
                 started[k].end # -1 /\ started[k].wrote <= nrows["monitor"]
    /\ Cardinality(LinesIn(logfile, "monitor")) =
          RowsWritten(started) + (IF lpc = "round" THEN wrote["monitor"] ELSE 0)

\* a step keeps the lines of the log; the step in which a round fails writes
\* nothing, and nothing is written for a round after it has failed
NoRetry ==
    /\ IsPrefix(logfile, logfile')
    /\ \A p \in Procs :
          /\ wpc[p] # "failed" /\ wpc'[p] = "failed" => logfile' = logfile
          /\ wpc[p] \in {"start", "stat", "open"} /\ wpc'[p] = "failed" =>
                 LinesIn(logfile', p) = LinesIn(logfile, p) /\ wrote'[p] = wrote[p]
          /\ wpc[p] = "failed" => LinesIn(logfile', p) = LinesIn(logfile, p)

\* none of the records of a round that failed is in the log
AllDropped ==
    /\ \A p \in Procs : wpc[p] = "failed" => wrote[p] = 0
    /\ \A k \in 1..Len(started) : started[k].written = "failed" => started[k].wrote = 0

\* C22 as claimed: when a round cannot write the log, the failure is logged and
\* not raised, the records of the round are dropped and not retried, the lines
\* of other rounds stay as they are, and the loop goes on with the next round.
C22_RecordsDropped == [](FailureContained /\ AllDropped) /\ [][NoRetry]_vars

\* C22: when a round cannot write the log (the lock is not acquired, or stat,
\* open or a write raises), the failure is logged and not raised: the round
\* returns to the loop, which goes on with the next round.  The rows that
\* reached the file before a write raised stay in the log; the other records
\* of the round are dropped and never written later in that round.  The
\* failing step changes no line of the log, and every line there is stays.
C22_WriteFailure == []FailureContained /\ [][NoRetry]_vars

\* a round of the loop failed after one of its two rows had reached the file,
\* and the next round of the loop wrote both of its rows
C22_Witness ==
    /\ ~is_scheduled_run
    /\ nrows["monitor"] = 2
    /\ Len(started) = 2
    /\ started[1].written = "failed" /\ started[1].wrote = 1
    /\ started[2].written = "ok" /\ started[2].wrote = 2
    /\ Cardinality(LinesIn(logfile, "monitor")) = 3

\* the rounds of the loop, in the order they began
Rounds == 1..Len(started)

\* C24: the rounds of one process do not overlap and are not duplicated.  A
\* round begins after the one before it has returned.  In scheduled mode a
\* round begins inside the window of its time of day, at most one in a pass
\* of the loop, and no two rounds of the same time of day begin on the same
\* calendar day, although the loop polls the window several times.  In
\* interval mode the first round begins in the first pass of the loop, and
\* each later one MONITOR_INTERVAL seconds or more after the one before began.
C24_RoundsNotDuplicated ==
    /\ \A k \in Rounds :
          /\ started[k].end = -1 <=> (k = Len(started) /\ lpc = "round")
          /\ started[k].end # -1 => started[k].begin <= started[k].end
          /\ k > 1 => /\ started[k - 1].end # -1
                      /\ started[k - 1].end <= started[k].begin
          /\ started[k].begin = started[k].at
    /\ lpc = "round" => started # <<>>
    /\ is_scheduled_run =>
          /\ lpc = "for" => FromFirstDue(pending, loop_now) = <<>>
          /\ \A k \in Rounds :
                /\ started[k].time \in Range(scheduled_times)
                /\ InWindow(started[k].at, started[k].time)
          /\ \A j, k \in Rounds :
                j # k /\ started[j].time = started[k].time =>
                    DateOf(started[j].at) # DateOf(started[k].at)
    /\ ~is_scheduled_run =>
          /\ started = <<>> => clock \in START_CLOCKS
          /\ started # <<>> => started[1].begin \in START_CLOCKS
          /\ \A k \in Rounds :
                k > 1 => started[k].begin - started[k - 1].begin >= monitor_interval

\* the round of 00:00 returned early enough for the loop to poll again inside
\* the window, no second round began that day, and the next one began inside
\* the window of 00:00 of the next day
C24_Witness ==
    /\ is_scheduled_run /\ scheduled_times = <<0>>
    /\ Len(started) = 2
    /\ DateOf(started[1].at) = 0 /\ DateOf(started[2].at) = 1
    /\ InWindow(started[1].end + SLEEP, 0)
    /\ started[2].end # -1

====
